---- MODULE Spec2Model ----
(***************************************************************************)
(* Model of the CSV redaction engine of utils/clean-data/sanitize.py:      *)
(* the pattern catalog (RedactionPatterns), the Luhn validator, the        *)
(* credit-card callback and RedactionEngine.process_dataframe, which       *)
(* rewrites a table column by column, one statement at a time.             *)
(*                                                                         *)
(* Cell texts are TLA+ strings.  Regular expressions are syntax trees that *)
(* a backtracking matcher walks with the priorities of Python's re module  *)
(* (leftmost match, greedy/lazy quantifiers, ordered alternation).         *)
(***************************************************************************)
EXTENDS Integers, Sequences, FiniteSets, TLC

(***************************************************************************)
(* Characters                                                              *)
(***************************************************************************)
Chars(s) == [i \in 1..Len(s) |-> SubSeq(s, i, i)]
CharSet(s) == {SubSeq(s, i, i) : i \in 1..Len(s)}

Upper == CharSet("ABCDEFGHIJKLMNOPQRSTUVWXYZ")
Lower == CharSet("abcdefghijklmnopqrstuvwxyz")
Digit == CharSet("0123456789")
Alpha == Upper \cup Lower
Alnum == Alpha \cup Digit
WordCh == Alnum \cup {"_"}
Space == {" ", "\t", "\n", "\r", "\f"}
HexCh == Digit \cup CharSet("abcdefABCDEF")
\* the lower-case letter of an upper-case one, for re.IGNORECASE
ToLowerMap == [c \in Upper |->
                 LET j == CHOOSE j \in 1..26 : SubSeq("ABCDEFGHIJKLMNOPQRSTUVWXYZ", j, j) = c
                 IN SubSeq("abcdefghijklmnopqrstuvwxyz", j, j)]
ToLower(c) == IF c \in Upper THEN ToLowerMap[c] ELSE c

(***************************************************************************)
(* Regular-expression syntax trees                                         *)
(***************************************************************************)
Inf == -1
Set(S) == [t |-> "set", s |-> S, neg |-> FALSE]
NotSet(S) == [t |-> "set", s |-> S, neg |-> TRUE]
Lit(s) == [t |-> "lit", cs |-> Chars(s), ci |-> FALSE]
LitI(s) == [t |-> "lit", cs |-> [i \in 1..Len(s) |-> ToLower(SubSeq(s, i, i))], ci |-> TRUE]
Cat(rs) == [t |-> "seq", rs |-> rs]
Alt(rs) == [t |-> "alt", rs |-> rs]
Rep(r, lo, hi) == [t |-> "rep", r |-> r, lo |-> lo, hi |-> hi, lazy |-> FALSE]
RepLazy(r, lo, hi) == [t |-> "rep", r |-> r, lo |-> lo, hi |-> hi, lazy |-> TRUE]
Opt(r) == Rep(r, 0, 1)
Star(r) == Rep(r, 0, Inf)
Plus(r) == Rep(r, 1, Inf)
Grp(n, r) == [t |-> "grp", n |-> n, r |-> r]
Ref(n) == [t |-> "ref", n |-> n]
Ahead(r) == [t |-> "la", r |-> r, neg |-> FALSE]
NotAhead(r) == [t |-> "la", r |-> r, neg |-> TRUE]
NotBehind(S) == [t |-> "lb", s |-> S]
WordB == [t |-> "wb"]

(***************************************************************************)
(* The matcher.  A match state is a position in the text and the spans of  *)
(* the capture groups.  Ends(h, t, st) is the sequence of states in which  *)
(* node h can end when started in st, without repetition and in the order  *)
(* in which a backtracking matcher (Python's re) would try them: its first *)
(* element is the state re continues with, the next one is what it falls   *)
(* back to when the rest of the pattern fails, and so on.                  *)
(***************************************************************************)
MaxGroups == 5
NoCaps == << <<1, 1>>, <<1, 1>>, <<1, 1>>, <<1, 1>>, <<1, 1>> >>
St(p, c) == [pos |-> p, caps |-> c]

Min(S) == CHOOSE x \in S : \A y \in S : x <= y
AsSeq(f) == f \o <<>>

\* the sequences LL[1], LL[2], ... one after the other, keeping the first occurrence of a state
Merge(LL) ==
    LET some == {j \in 1..Len(LL) : LL[j] # <<>>}
    IN IF some = {} THEN <<>>
       ELSE IF Cardinality(some) = 1 THEN LL[Min(some)]
       ELSE LET w == CHOOSE x \in {Len(LL[j]) : j \in some} : \A j \in some : x >= Len(LL[j])
                item(k) == LET j == ((k - 1) \div w) + 1
                               x == ((k - 1) % w) + 1
                           IN IF x <= Len(LL[j]) THEN [k |-> k, ok |-> TRUE, v |-> LL[j][x]]
                              ELSE [k |-> k, ok |-> FALSE, v |-> St(0, NoCaps)]
                items == SelectSeq([k \in 1..(Len(LL) * w) |-> item(k)], LAMBDA e : e.ok)
                firsts == SelectSeq(items, LAMBDA e : \A j \in 1..Len(items) :
                                                         items[j].v = e.v => items[j].k >= e.k)
            IN AsSeq([j \in 1..Len(firsts) |-> firsts[j].v])

RECURSIVE Ends(_, _, _)
RECURSIVE EndsAll(_, _, _)
RECURSIVE EndsCat(_, _, _)

\* node h started in each state of L, in order
EndsAll(h, t, L) ==
    IF L = <<>> THEN <<>>
    ELSE IF Len(L) = 1 THEN Ends(h, t, L[1])
    ELSE Merge(AsSeq([j \in 1..Len(L) |-> Ends(h, t, L[j])]))

\* the nodes rs one after the other, started in each state of L
EndsCat(rs, t, L) ==
    IF L = <<>> \/ rs = <<>> THEN L
    ELSE IF Len(rs) = 1 THEN EndsAll(rs[1], t, L)
    ELSE LET half == Len(rs) \div 2
         IN EndsCat(SubSeq(rs, half + 1, Len(rs)), t, EndsCat(SubSeq(rs, 1, half), t, L))

Ends(h, t, st) ==
    LET i == st.pos
        IsWordAt(p) == p >= 1 /\ p <= Len(t) /\ t[p] \in WordCh
        LitAt ==
            /\ i + Len(h.cs) - 1 <= Len(t)
            /\ \A j \in 1..Len(h.cs) :
                  (IF h.ci THEN ToLower(t[i + j - 1]) ELSE t[i + j - 1]) = h.cs[j]
        RefAt(c) ==
            LET len == c[2] - c[1] IN
            /\ i + len - 1 <= Len(t)
            /\ \A j \in 1..len : t[i + j - 1] = t[c[1] + j - 1]
        \* the number of consecutive characters from position i that are in the class c,
        \* at most lim
        RunLen(c, lim) ==
            IF \A j \in 0..(lim - 1) : (t[i + j] \in c.s) # c.neg THEN lim
            ELSE CHOOSE l \in 0..(lim - 1) :
                    /\ (t[i + l] \in c.s) = c.neg
                    /\ \A j \in 0..(l - 1) : (t[i + j] \in c.s) # c.neg
    IN CASE h.t = "set" ->
              IF i <= Len(t) /\ ((t[i] \in h.s) # h.neg) THEN <<St(i + 1, st.caps)>> ELSE <<>>
         [] h.t = "lit" ->
              IF LitAt THEN <<St(i + Len(h.cs), st.caps)>> ELSE <<>>
         [] h.t = "seq" -> EndsCat(h.rs, t, <<st>>)
         [] h.t = "alt" -> Merge(AsSeq([j \in 1..Len(h.rs) |-> Ends(h.rs[j], t, st)]))
         [] h.t = "rep" /\ h.r.t = "set" ->
              \* a quantified character class: longest run first when greedy, shortest when lazy
              LET left == Len(t) - i + 1
                  lim == IF h.hi < 0 \/ h.hi > left THEN left ELSE h.hi
                  run == RunLen(h.r, lim)
              IN IF run < h.lo THEN <<>>
                 ELSE AsSeq([j \in 1..(run - h.lo + 1) |->
                               St(i + (IF h.lazy THEN h.lo + j - 1 ELSE run - j + 1), st.caps)])
         [] h.t = "rep" /\ h.r.t # "set" /\ h.lo > 0 /\ h.hi = h.lo ->
              \* exactly lo times
              IF h.lo = 1 THEN Ends(h.r, t, st)
              ELSE LET a == h.lo \div 2
                   IN EndsAll([h EXCEPT !.lo = h.lo - a, !.hi = h.lo - a], t,
                              Ends([h EXCEPT !.lo = a, !.hi = a], t, st))
         [] h.t = "rep" /\ h.r.t # "set" /\ h.lo > 0 /\ h.hi # h.lo ->
              \* the lo compulsory repetitions, then the optional ones
              EndsAll([h EXCEPT !.lo = 0, !.hi = IF h.hi < 0 THEN h.hi ELSE h.hi - h.lo], t,
                      Ends([h EXCEPT !.hi = h.lo], t, st))
         [] h.t = "rep" /\ h.r.t # "set" /\ h.lo = 0 ->
              IF h.hi = 0 THEN <<st>>
              ELSE LET once == SelectSeq(Ends(h.r, t, st), LAMBDA e : e.pos > i)
                       more == EndsAll([h EXCEPT !.hi = IF h.hi < 0 THEN h.hi ELSE h.hi - 1], t, once)
                   IN IF h.lazy THEN Merge(<< <<st>>, more >>) ELSE Merge(<< more, <<st>> >>)
         [] h.t = "grp" ->
              LET ends == Ends(h.r, t, st)
              IN AsSeq([j \in 1..Len(ends) |->
                          St(ends[j].pos, [ends[j].caps EXCEPT ![h.n] = <<i, ends[j].pos>>])])
         [] h.t = "ref" ->
              IF RefAt(st.caps[h.n])
              THEN <<St(i + (st.caps[h.n][2] - st.caps[h.n][1]), st.caps)>> ELSE <<>>
         [] h.t = "la" -> IF (Ends(h.r, t, st) # <<>>) # h.neg THEN <<st>> ELSE <<>>
         [] h.t = "lb" -> IF i = 1 \/ t[i - 1] \notin h.s THEN <<st>> ELSE <<>>
         [] h.t = "wb" -> IF IsWordAt(i - 1) # IsWordAt(i) THEN <<st>> ELSE <<>>
         [] h.t = "eos" -> IF i = Len(t) + 1 \/ (i = Len(t) /\ t[i] = "\n") THEN <<st>> ELSE <<>>

\* pattern.match(text, i): the match of re that starts at position i, if any
MatchAt(re, t, i) ==
    LET ends == Ends(re, t, St(i, NoCaps))
    IN IF ends = <<>> THEN [ok |-> FALSE, pos |-> 0, caps |-> NoCaps]
       ELSE [ok |-> TRUE, pos |-> ends[1].pos, caps |-> ends[1].caps]

\* pattern.search(s) is not None
Search(re, s) == LET t == AsSeq(Chars(s)) IN \E i \in 1..(Len(s) + 1) : MatchAt(re, t, i).ok

\* a replacement template is a sequence of items: a group reference (g > 0) or a literal
G(n) == [g |-> n, s |-> ""]
L(s) == [g |-> 0, s |-> s]
RECURSIVE Expand(_, _, _)
Expand(repl, s, caps) ==
    IF repl = <<>> THEN ""
    ELSE LET it == Head(repl)
             piece == IF it.g = 0 THEN it.s
                      ELSE SubSeq(s, caps[it.g][1], caps[it.g][2] - 1)
         IN piece \o Expand(Tail(repl), s, caps)

\* pattern.sub(repl, s): the leftmost non-overlapping matches are replaced; starts are the
\* positions of s at which the pattern matches, p is the position the scan has reached
RECURSIVE SubFrom(_, _, _, _, _, _)
SubFrom(re, repl, s, t, starts, p) ==
    LET cand == {i \in starts : i >= p}
    IN IF cand = {} THEN SubSeq(s, p, Len(s))
       ELSE LET i == Min(cand)
                m == MatchAt(re, t, i)
            IN SubSeq(s, p, i - 1) \o Expand(repl, s, m.caps) \o SubFrom(re, repl, s, t, starts, m.pos)
MatchStarts(re, t) == {i \in 1..Len(t) : LET m == MatchAt(re, t, i) IN m.ok /\ m.pos > i}
Sub(re, repl, s) ==
    LET t == AsSeq(Chars(s)) IN SubFrom(re, repl, s, t, MatchStarts(re, t), 1)

(***************************************************************************)
(* RedactionPatterns: the compiled patterns, named as in the source        *)
(***************************************************************************)
Sp == Set(Space)
D == Set(Digit)
Quote == {"\"", "'"}
Hex(n) == Rep(Set(HexCh), n, n)

ipv4 ==
    LET Octet == Alt(<<Cat(<<Lit("25"), Set(CharSet("012345"))>>),
                       Cat(<<Lit("2"), Set(CharSet("01234")), D>>),
                       Cat(<<Opt(Set({"0", "1"})), D, Opt(D)>>)>>)
    IN Cat(<<NotBehind(Digit), Rep(Cat(<<Octet, Lit(".")>>), 3, 3), Octet, NotAhead(D)>>)

ipv6 ==
    LET Ipv6Group == Rep(Set(Digit \cup CharSet("ABCDEF")), 1, 4)
    IN Cat(<<NotBehind(HexCh \cup {":"}), Rep(Cat(<<Ipv6Group, Lit(":")>>), 7, 7), Ipv6Group,
             NotAhead(Set(HexCh \cup {":"}))>>)

fqdn ==
    LET HostCh == Alnum \cup {".", "-"}
    IN Cat(<<NotBehind(HostCh),
             NotAhead(Cat(<<Star(Set(HostCh)), Lit("newrelic")>>)),
             Plus(Cat(<<Set(Alnum), Opt(Cat(<<Star(Set(Alnum \cup {"-"})), Set(Alnum)>>)), Lit(".")>>)),
             Rep(Set(Alpha), 2, 63), WordB>>)

container_id == Cat(<<WordB, Hex(64), WordB>>)

mac_address == Cat(<<Rep(Grp(1, Cat(<<Hex(2), Set({":", "-"})>>)), 5, 5), Grp(2, Hex(2))>>)

email == Cat(<<WordB, Plus(Set(Alnum \cup CharSet("._%+-"))), Lit("@"),
               Plus(Set(Alnum \cup CharSet(".-"))), Lit("."),
               Rep(Set(Alpha \cup {"|"}), 2, Inf), WordB>>)

\* phone with the three separators made compulsory: a bare run of digits is no phone number
phone_separated ==
    LET Sep == Set(Space \cup {".", "-"})
    IN Cat(<<NotBehind(Digit), Opt(Lit("+")), Opt(Lit("1")), Sep, Opt(Lit("(")),
             Rep(D, 3, 3), Opt(Lit(")")), Sep, Rep(D, 3, 3), Sep, Rep(D, 4, 4), NotAhead(D)>>)
phone ==
    LET Sep == Opt(Set(Space \cup {".", "-"}))
    IN Cat(<<NotBehind(Digit), Opt(Lit("+")), Opt(Lit("1")), Sep, Opt(Lit("(")),
             Rep(D, 3, 3), Opt(Lit(")")), Sep, Rep(D, 3, 3), Sep, Rep(D, 4, 4), NotAhead(D)>>)

ssn == Cat(<<WordB, Rep(D, 3, 3), Lit("-"), Rep(D, 2, 2), Lit("-"), Rep(D, 4, 4), WordB>>)

greeting_name == Cat(<<WordB, Grp(1, Alt(<<LitI("Hi"), LitI("Hello"), LitI("Hey")>>)),
                       Grp(2, Plus(Sp)), Grp(3, Plus(NotSet(Space \cup CharSet(",<>")))),
                       Star(Sp), Ahead(Lit(","))>>)

support_update_name ==
    Cat(<<Grp(1, Cat(<<LitI("Your support case has been updated by"), Plus(Sp)>>)),
          Grp(2, RepLazy(NotSet({"."}), 1, Inf)), Ahead(Alt(<<Lit("."), [t |-> "eos"]>>))>>)

credit_card_candidate ==
    Cat(<<WordB, Rep(Cat(<<D, RepLazy(Set({" ", "-"}), 0, Inf)>>), 13, 19), WordB>>)

uuid == Cat(<<WordB, Hex(8), Lit("-"), Hex(4), Lit("-"), Hex(4), Lit("-"), Hex(4), Lit("-"),
              Hex(12), WordB>>)

api_keys_assignment ==
    Cat(<<Grp(1, Opt(Set(Quote))), WordB,
          Grp(2, Alt(<<LitI("api_key"), LitI("access_token"), LitI("secret"), LitI("private_key"),
                       LitI("key"), LitI("token"),
                       Cat(<<LitI("license"), Opt(Set({"-", "_"})), LitI("key")>>)>>)),
          WordB, Ref(1), Star(Sp), Set({":", "="}), Star(Sp),
          Grp(3, Opt(Set(Quote))), Plus(Set(WordCh \cup {"-"})), Ref(3)>>)

aws_key_id == Cat(<<WordB, Grp(1, Alt(<<Lit("AKIA"), Lit("ASIA")>>)),
                    Rep(Set(Digit \cup Upper), 16, 16), WordB>>)
google_api_key == Cat(<<WordB, Lit("AIza"), Rep(Set(WordCh \cup {"-"}), 35, 35), WordB>>)
stripe_key == Cat(<<WordB, Grp(1, Alt(<<Lit("sk"), Lit("pk")>>)), Lit("_"),
                    Grp(2, Alt(<<Lit("test"), Lit("live")>>)), Lit("_"),
                    Rep(Set(Alnum), 24, Inf), WordB>>)

competitors ==
    LET names ==
    <<"Salesforce", "Oracle", "SAP", "Datadog", "Splunk", "Dynatrace", "AppDynamics", "Sumologic",
      "Elastic", "Grafana", "Zabbix", "Nagios", "SolarWinds", "Microsoft", "Google", "AWS",
      "Amazon", "IBM", "Cisco", "Intel", "AMD", "Nvidia", "Apple", "Meta", "Facebook", "Netflix",
      "Adobe", "Intuit", "ServiceNow", "Snowflake", "Atlassian", "Jira", "Confluence", "Slack",
      "Zoom", "Twilio", "HPE", "HP", "Dell", "Lenovo", "Samsung", "Sony", "Stripe", "PayPal",
      "Square", "Visa", "Mastercard">>
    IN Cat(<<WordB, Grp(1, Alt([i \in 1..Len(names) |-> LitI(names[i])])), WordB>>)

EnvKey == Cat(<<Alt(<<LitI("NEW_RELIC_"), LitI("NRIA_"), LitI("NEWRELIC_")>>), Plus(Set(WordCh))>>)
AssignSep == Cat(<<Star(Sp), Alt(<<Set({":", "="}), Plus(Sp)>>), Star(Sp)>>)
AnyLazy == RepLazy(NotSet({"\n"}), 0, Inf)
Bare == Plus(NotSet(Space \cup Quote))
nr_env_assignment_quoted ==
    Cat(<<Grp(1, Opt(Set(Quote))), WordB, Grp(2, EnvKey), WordB, Ref(1), Grp(3, AssignSep),
          Grp(4, Set(Quote)), Grp(5, AnyLazy), Ref(4)>>)
nr_env_assignment_unquoted ==
    Cat(<<Grp(1, Opt(Set(Quote))), WordB, Grp(2, EnvKey), WordB, Ref(1), Grp(3, AssignSep),
          NotAhead(Cat(<<LitI("value"), Star(Sp), Lit(":")>>)), Grp(4, Bare)>>)
StructuredHead == Cat(<<LitI("name"), Star(Sp), Lit(":"), Star(Sp), Grp(2, Opt(Set(Quote))), WordB,
                        EnvKey, WordB, Ref(2), Plus(Sp), LitI("value"), Star(Sp), Lit(":"), Star(Sp)>>)
nr_env_structured_quoted ==
    Cat(<<Grp(1, StructuredHead), Grp(3, Set(Quote)), Grp(4, AnyLazy), Ref(3)>>)
nr_env_structured_unquoted == Cat(<<Grp(1, StructuredHead), Grp(3, Bare)>>)

PrivateLocKey == Alt(<<Cat(<<Opt(LitI("synthetics.")), LitI("privateLocationKey")>>),
                       LitI("PRIVATE_LOCATION_KEY")>>)
private_loc_assignment_quoted ==
    Cat(<<Grp(1, Opt(Set(Quote))), WordB, Grp(2, PrivateLocKey), WordB, Ref(1), Grp(3, AssignSep),
          Grp(4, Set(Quote)), Grp(5, AnyLazy), Ref(4)>>)
private_loc_assignment_unquoted ==
    Cat(<<Grp(1, Opt(Set(Quote))), WordB, Grp(2, PrivateLocKey), WordB, Ref(1), Grp(3, AssignSep),
          Grp(4, Bare)>>)

LowDigDash == Lower \cup Digit \cup {"-"}
aws_arn == Cat(<<Lit("arn:aws:"), Plus(Set(LowDigDash)), Lit(":"), Star(Set(LowDigDash)), Lit(":"),
                 Star(D), Lit(":"), Plus(Set(Alnum \cup CharSet("-_/")))>>)
azure_id == Cat(<<LitI("/subscriptions/"), Plus(Set(HexCh \cup {"-"})),
                  LitI("/resourceGroups/"), Plus(Set(Alnum \cup CharSet("-_"))),
                  LitI("/providers/"), Plus(Set(Alnum \cup CharSet("-_/.")))>>)
gcp_id == Cat(<<Lit("projects/"), Plus(Set(LowDigDash)), Lit("/"),
                Grp(1, Alt(<<Lit("zones"), Lit("regions")>>)), Lit("/"), Plus(Set(LowDigDash)),
                Lit("/"), Plus(Set(LowDigDash \cup {"/"}))>>)

(***************************************************************************)
(* process_dataframe, steps 1 to 2: the str.replace calls, each with its   *)
(* pattern and replacement template, and the order they are made in       *)
(***************************************************************************)
Token(tag) == "[REDACTED: " \o tag \o "]"
Stmt(name, re, repl) == [name |-> name, re |-> re, repl |-> repl]
Statements ==
    { Stmt("ipv4", ipv4, <<L(Token("IPv4"))>>),
      Stmt("ipv6", ipv6, <<L(Token("IPv6"))>>),
      Stmt("email", email, <<L(Token("EMAIL"))>>),
      Stmt("mac_address", mac_address, <<L(Token("MAC"))>>),
      Stmt("uuid", uuid, <<L(Token("UUID"))>>),
      Stmt("container_id", container_id, <<L(Token("CONTAINER_ID"))>>),
      Stmt("aws_key_id", aws_key_id, <<L(Token("AWS_KEY"))>>),
      Stmt("google_api_key", google_api_key, <<L(Token("GOOGLE_KEY"))>>),
      Stmt("stripe_key", stripe_key, <<L(Token("STRIPE_KEY"))>>),
      Stmt("api_keys_assignment", api_keys_assignment,
           <<G(1), G(2), G(1), G(3), L(Token("API_KEY_ASSIGNMENT")), G(3)>>),
      Stmt("nr_env_structured_quoted", nr_env_structured_quoted,
           <<G(1), G(3), L(Token("NR_ENV_VAR")), G(3)>>),
      Stmt("nr_env_structured_unquoted", nr_env_structured_unquoted,
           <<G(1), L(Token("NR_ENV_VAR"))>>),
      Stmt("nr_env_assignment_quoted", nr_env_assignment_quoted,
           <<G(1), G(2), G(1), G(3), G(4), L(Token("NR_ENV_VAR")), G(4)>>),
      Stmt("nr_env_assignment_unquoted", nr_env_assignment_unquoted,
           <<G(1), G(2), G(1), G(3), L(Token("NR_ENV_VAR"))>>),
      Stmt("private_loc_assignment_quoted", private_loc_assignment_quoted,
           <<G(1), G(2), G(1), G(3), G(4), L(Token("PRIVATE_LOCATION_KEY")), G(4)>>),
      Stmt("private_loc_assignment_unquoted", private_loc_assignment_unquoted,
           <<G(1), G(2), G(1), G(3), L(Token("PRIVATE_LOCATION_KEY"))>>),
      Stmt("aws_arn", aws_arn, <<L(Token("AWS_ARN"))>>),
      Stmt("azure_id", azure_id, <<L(Token("AZURE_ID"))>>),
      Stmt("gcp_id", gcp_id, <<L(Token("GCP_ID"))>>),
      Stmt("phone", phone, <<L(Token("PHONE"))>>),
      Stmt("ssn", ssn, <<L(Token("SSN"))>>),
      Stmt("greeting_name", greeting_name, <<G(1), G(2), L(Token("NAME"))>>),
      Stmt("support_update_name", support_update_name, <<G(1), L(Token("NAME"))>>) }
StmtNamed(name) == CHOOSE st \in Statements : st.name = name

\* the same calls with the ipv4 call moved behind the environment-variable calls
StatementOrderLate ==
    << "ipv6", "email", "mac_address", "uuid", "container_id", "aws_key_id",
       "google_api_key", "stripe_key", "stripe_key", "api_keys_assignment",
       "nr_env_structured_quoted", "nr_env_structured_unquoted", "nr_env_assignment_quoted",
       "nr_env_assignment_unquoted", "ipv4", "private_loc_assignment_quoted",
       "private_loc_assignment_unquoted", "aws_arn", "azure_id", "gcp_id",
       "phone", "ssn", "greeting_name", "support_update_name" >>
\* the order of the calls in the loop body (the stripe_key call is there twice)
StatementOrder ==
    << "ipv4", "ipv6", "email", "mac_address", "uuid", "container_id", "aws_key_id",
       "google_api_key", "stripe_key", "stripe_key", "api_keys_assignment",
       "nr_env_structured_quoted", "nr_env_structured_unquoted", "nr_env_assignment_quoted",
       "nr_env_assignment_unquoted", "private_loc_assignment_quoted",
       "private_loc_assignment_unquoted", "aws_arn", "azure_id", "gcp_id",
       "phone", "ssn", "greeting_name", "support_update_name" >>
Pipeline == AsSeq([k \in 1..Len(StatementOrder) |-> StmtNamed(StatementOrder[k])])

StrReplace(stmt, text) == Sub(stmt.re, stmt.repl, text)

(***************************************************************************)
(* RedactionEngine._is_luhn_valid and _redact_credit_cards                 *)
(***************************************************************************)
DigitVal(c) == (CHOOSE j \in 1..10 : SubSeq("0123456789", j, j) = c) - 1

\* digits = [int(d) for d in cc_num if d.isdigit()]
DigitsOf(cc_num) ==
    LET ds == SelectSeq(AsSeq(Chars(cc_num)), LAMBDA c : c \in Digit)
    IN AsSeq([j \in 1..Len(ds) |-> DigitVal(ds[j])])

\* the loop over enumerate(reverse_digits), from index i on
RECURSIVE LuhnChecksum(_, _)
LuhnChecksum(reverse_digits, i) ==
    IF i >= Len(reverse_digits) THEN 0
    ELSE LET d == reverse_digits[i + 1]
             doubled == d * 2
         IN (IF i % 2 = 1 THEN (IF doubled < 10 THEN doubled ELSE doubled - 9) ELSE d)
            + LuhnChecksum(reverse_digits, i + 1)

\* _is_luhn_valid without the reversal: positions counted from the left
_is_luhn_valid_unreversed(cc_num) ==
    LET digits == DigitsOf(cc_num)
    IN IF digits = <<>> THEN FALSE
       ELSE LuhnChecksum(digits, 0) % 10 = 0
_is_luhn_valid(cc_num) ==
    LET digits == DigitsOf(cc_num)
        reverse_digits == AsSeq([j \in 1..Len(digits) |-> digits[Len(digits) - j + 1]])
    IN IF digits = <<>> THEN FALSE
       ELSE LuhnChecksum(reverse_digits, 0) % 10 = 0

\* re.sub(r'\D', '', val)
RECURSIVE Join(_)
Join(cs) == IF cs = <<>> THEN "" ELSE Head(cs) \o Join(Tail(cs))

\* replace_match without the checksum: the length alone decides
replace_match_any(val) ==
    LET digits_only == Join(SelectSeq(AsSeq(Chars(val)), LAMBDA c : c \in Digit))
    IN IF 13 <= Len(digits_only) /\ Len(digits_only) <= 19
       THEN Token("CREDIT_CARD")
       ELSE val
replace_match(val) ==
    LET digits_only == Join(SelectSeq(AsSeq(Chars(val)), LAMBDA c : c \in Digit))
    IN IF 13 <= Len(digits_only) /\ Len(digits_only) <= 19 /\ _is_luhn_valid(digits_only)
       THEN Token("CREDIT_CARD")
       ELSE val

\* credit_card_candidate.sub(replace_match, text)
RECURSIVE CardSubFrom(_, _, _, _)
CardSubFrom(s, t, starts, p) ==
    LET cand == {i \in starts : i >= p}
    IN IF cand = {} THEN SubSeq(s, p, Len(s))
       ELSE LET i == Min(cand)
                m == MatchAt(credit_card_candidate, t, i)
            IN SubSeq(s, p, i - 1) \o replace_match(SubSeq(s, i, m.pos - 1))
                 \o CardSubFrom(s, t, starts, m.pos)
_redact_credit_cards(text) ==
    LET t == AsSeq(Chars(text))
    IN CardSubFrom(text, t, MatchStarts(credit_card_candidate, t), 1)

(***************************************************************************)
(* Column (Series) operations of pandas used by process_dataframe          *)
(***************************************************************************)
\* Series.str.replace(pattern, repl, regex=True)
StrReplaceAll(stmt, series) == AsSeq([r \in 1..Len(series) |-> StrReplace(stmt, series[r])])
\* Series.str.contains(pattern)
StrContains(re, series) == AsSeq([r \in 1..Len(series) |-> Search(re, series[r])])
\* boolean indexing in the place of where: the rows where cond holds are dropped
WhereRowsDropped(series, cond, other) ==
    LET keep == {r \in 1..Len(series) : ~cond[r]}
        nth(k) == CHOOSE r \in keep : Cardinality({q \in keep : q < r}) = k - 1
    IN AsSeq([k \in 1..Cardinality(keep) |-> other[nth(k)]])
\* Series.where(cond, other): keep the value where cond holds, take other elsewhere
Where(series, cond, other) ==
    AsSeq([r \in 1..Len(series) |-> IF cond[r] THEN series[r] ELSE other[r]])
\* Series.apply(f) for f = _redact_credit_cards
ApplyCards(series) == AsSeq([r \in 1..Len(series) |-> _redact_credit_cards(series[r])])

FqdnStmt == Stmt("fqdn", fqdn, <<L(Token("FQDN"))>>)
CompetitorStmt == Stmt("competitors", competitors, <<L(Token("PRODUCT/COMPETITOR"))>>)
NewRelicTerm == LitI("new relic")

(***************************************************************************)
(* Input tables                                                            *)
(***************************************************************************)
MaxRows == 2      \* rows per table
MaxRuns == 2      \* times the engine is run, each run on the output of the previous one

\* [na |-> TRUE, text |-> ""] is a missing value (NaN)
Txt(s) == [na |-> FALSE, text |-> s]

Corpus ==
    { "NEW_RELIC_X=10.0.0.1", "NEW_RELIC_X=abc", "privateLocationKey=abc", "NEW_RELIC_X: key=abc",
      "1234567890", "5555555555", "4111111111111111", "4111111111111112", "4111 1111 1111 1111",
      "4222222222222", "Your support case has been updated by New Relic.",
      "Contact us, not Salesforce", "new relic vs Salesforce", "New Relic bob@example.com Oracle",
      "google.com", "docs.newrelic.com", "api.NewRelic.com", "bob@example.com",
      "name: NEW_RELIC_X value: abc", "name: NEW_RELIC_X value: \"abc\"",
      "Hi Bob, call 555-123-4567", "key=abc", "10.0.0.1", "00:1A:2B:3C:4D:5E", "123-45-6789",
      "card 4111111111111111 or 4111111111111112",
      "Your support case has been updated by New Relic. Oracle a.io", "oracle.com",
      "name: NEW_RELIC_X value: 10.0.0.1", "name: NEW_RELIC_X value: key=abc", "nan", "" }

\* a table is a leading record followed by copies of a filler record of the same
\* width; column-major: data[c][r] is the cell of column c in row r
Tables ==
    LET Records ==
    { [cols |-> <<"text">>, first |-> <<c>>, filler |-> <<Txt("4111111111111111")>>] :
          c \in {Txt(s) : s \in Corpus} \cup {[na |-> TRUE, text |-> ""]} }
    \cup
    { [cols |-> <<"CaseID", "Date", "Contact", "Type">>, first |-> f,
       filler |-> <<Txt("CM-7"), Txt("2024-01-02"), Txt("Ann Roe"), Txt("SomeoneElse")>>] :
          f \in { <<Txt("CM-42"), Txt("2024-01-01"), Txt("Bob Lee"), Txt("AllUsers")>>,
                  <<Txt("CM-1001"), [na |-> TRUE, text |-> ""], Txt("Jane Doe"), Txt("AllUsers")>>,
                  <<Txt("CM-7"), Txt("2024-01-02"), Txt("Ann Roe"), Txt("SomeoneElse")>> } }
        TableOf(rec, m) ==
            [columns |-> rec.cols,
             data |-> AsSeq([c \in 1..Len(rec.cols) |->
                        AsSeq([r \in 1..m |-> IF r = 1 THEN rec.first[c] ELSE rec.filler[c]])])]
    IN {TableOf(rec, m) : rec \in Records, m \in 1..MaxRows}

(***************************************************************************)
(* State                                                                   *)
(***************************************************************************)
VARIABLES
    input,            \* the DataFrame passed to process_dataframe
    columns,          \* df.columns
    df,               \* the working DataFrame, df[c][r]
    col,              \* the column the loop is at
    pc,               \* the statement about to run
    stmt,             \* inside the run of str.replace calls: its index in Pipeline
    is_nr_safe_mask,  \* per row of the current column
    fqdn_redacted,    \* temporary Series
    comp_redacted,    \* temporary Series
    run,              \* 1 for the first run of the engine, 2 for a run on its own output
    first_out,        \* what the first run returned
    cc_num,           \* the argument of a call of _is_luhn_valid
    luhn_pc,          \* "call" before that call, "returned" after it, "idle" with no call
    luhn_result       \* what the call returned

\* the batch run: process_data.main starting convert.py and then sanitize.py
VARIABLES
    orch_pc,          \* where process_data.main is
    orch_out,         \* what process_data.main and run_step have printed
    orch_exit,        \* exit status of process_data.main, -1 while it runs
    san_pc,           \* where sanitize.main is
    input_exists,     \* input_path.exists()
    files,            \* the files os.walk finds, in its order: what goes wrong with each
    file_i,           \* index in files of the file the loop is at
    file_count,       \* file_count of sanitize.main
    log,              \* the records sanitize.main has passed to logger
    saved,            \* indexes of the files written by to_csv
    san_exit          \* exit status of sanitize.py, -1 while it runs

\* convert.py: process_directory turning the .txt files of a directory into CSV files
VARIABLES
    conv_pc,          \* where process_directory is
    txt_files,        \* the files glob finds, in its order: the lines of each
    txt_i,            \* index in txt_files of the file the loop is at
    headers,          \* headers of the file the loop is at
    value_sets,       \* value_sets of that file
    rec_k,            \* index in value_sets of the chunk the inner loop is at
    records,          \* records of that file
    csv_out,          \* the CSV files written: file index :> its rows
    conv_log,         \* what convert.py has printed
    processed_count   \* processed_count of process_directory

\* manage-monitors.py: the enable / disable / delete flow of main
VARIABLES
    mon_pc,              \* where main is
    all_monitors,        \* what find_monitors_by_tag returned
    choice,              \* the menu choice: "2", "3" or "4"
    monitors_to_manage,  \* the numbered list shown to the user
    selection_typed,     \* what the user types at the selection prompt
    selected_indices,    \* what parse_selection returned
    confirm,             \* what the user types at the confirmation prompt
    mon_k,               \* position in selected_monitors of the monitor the loop is at
    sent                 \* the mutations sent to NerdGraph, in order

\* pr_tracker.py: analyze_prs
VARIABLES
    prs_pc,                 \* where analyze_prs is
    prs,                    \* its argument prs, with the outcome of each detail request
    filtered_prs,           \* indexes in prs of the pull requests of the target authors
    pr_i,                   \* position in filtered_prs of the pull request the loop is at
    prs_per_author,         \* author :> the five counters
    merged_prs_per_month,   \* month :> merged pull requests
    total_merged_prs        \* total_merged_prs of analyze_prs

engine == <<input, columns, df, col, pc, stmt, is_nr_safe_mask, fqdn_redacted, comp_redacted,
            run, first_out>>
luhn == <<cc_num, luhn_pc, luhn_result>>
orch == <<orch_pc, orch_out, orch_exit>>
sanitize == <<san_pc, input_exists, files, file_i, file_count, log, saved, san_exit>>
conv == <<conv_pc, txt_files, txt_i, headers, value_sets, rec_k, records, csv_out, conv_log,
          processed_count>>
mon == <<mon_pc, all_monitors, choice, monitors_to_manage, selection_typed, selected_indices,
         confirm, mon_k, sent>>
prv == <<prs_pc, prs, filtered_prs, pr_i, prs_per_author, merged_prs_per_month, total_merged_prs>>

\* no batch run
BatchIdle ==
    /\ orch_pc = "idle"
    /\ orch_out = <<>>
    /\ orch_exit = -1
    /\ san_pc = "idle"
    /\ input_exists = FALSE
    /\ files = <<>>
    /\ file_i = 0
    /\ file_count = 0
    /\ log = <<>>
    /\ saved = {}
    /\ san_exit = -1
\* convert.py, manage-monitors.py and pr_tracker.py not running
ToolsIdle ==
    /\ conv_pc = "idle"
    /\ txt_files = <<>>
    /\ txt_i = 0
    /\ headers = <<>>
    /\ value_sets = <<>>
    /\ rec_k = 0
    /\ records = <<>>
    /\ csv_out = <<>>
    /\ conv_log = <<>>
    /\ processed_count = 0
    /\ mon_pc = "idle"
    /\ all_monitors = <<>>
    /\ choice = ""
    /\ monitors_to_manage = <<>>
    /\ selection_typed = ""
    /\ selected_indices = {}
    /\ confirm = ""
    /\ mon_k = 0
    /\ sent = <<>>
    /\ prs_pc = "idle"
    /\ prs = <<>>
    /\ filtered_prs = <<>>
    /\ pr_i = 0
    /\ prs_per_author = <<>>
    /\ merged_prs_per_month = <<>>
    /\ total_merged_prs = 0
\* no run of the engine, no call of _is_luhn_valid
EngineIdle ==
    /\ input = [columns |-> <<>>, data |-> <<>>]
    /\ columns = <<>>
    /\ df = <<>>
    /\ col = 0
    /\ pc = "idle"
    /\ stmt = 0
    /\ is_nr_safe_mask = <<>>
    /\ fqdn_redacted = <<>>
    /\ comp_redacted = <<>>
    /\ run = 1
    /\ first_out = <<>>
    /\ cc_num = ""
    /\ luhn_pc = "idle"
    /\ luhn_result = FALSE
vars == <<engine, luhn, orch, sanitize, conv, mon, prv>>

NCols == Len(columns)
SetCol(series) == [df EXCEPT ![col] = series]

Init ==
    /\ input \in Tables
    /\ columns = input.columns
    /\ df = input.data
    /\ col = 0
    /\ pc = "astype"
    /\ stmt = 0
    /\ is_nr_safe_mask = <<>>
    /\ fqdn_redacted = <<>>
    /\ comp_redacted = <<>>
    /\ run = 1
    /\ first_out = <<>>
    /\ cc_num = ""
    /\ luhn_pc = "idle"
    /\ luhn_result = FALSE
    /\ BatchIdle
    /\ ToolsIdle

\* the text of an input cell after astype(str) and replace('nan', '')
Normalized(cell) == IF cell.na \/ cell.text = "nan" THEN "" ELSE cell.text

\* the text after the first k rules of the list names, each applied to the
\* output of the one before
RECURSIVE AfterRange(_, _, _, _)
AfterRange(names, lo, hi, text) ==
    IF lo > hi THEN text
    ELSE IF lo = hi THEN StrReplace(StmtNamed(names[lo]), text)
    ELSE LET mid == (lo + hi) \div 2
             half == AfterRange(names, lo, mid, text)
         IN IF Len(half) >= 0 THEN AfterRange(names, mid + 1, hi, half) ELSE half

(***************************************************************************)
(* process_dataframe, statement by statement                               *)
(***************************************************************************)
\* df = df.astype(str): a missing value becomes the text 'nan'
Astype ==
    /\ pc = "astype"
    /\ df' = AsSeq([c \in 1..Len(df) |->
                AsSeq([r \in 1..Len(df[c]) |-> IF df[c][r].na THEN "nan" ELSE df[c][r].text])])
    /\ pc' = "replace_nan"
    /\ UNCHANGED <<input, columns, col, stmt, is_nr_safe_mask, fqdn_redacted, comp_redacted,
                   run, first_out, luhn, orch, sanitize, conv, mon, prv>>

\* df.replace('nan', '', inplace=True): cells equal to 'nan' become empty
ReplaceNan ==
    /\ pc = "replace_nan"
    /\ df' = AsSeq([c \in 1..Len(df) |->
                AsSeq([r \in 1..Len(df[c]) |-> IF df[c][r] = "nan" THEN "" ELSE df[c][r]])])
    /\ col' = 1
    /\ pc' = IF NCols >= 1 THEN "mask" ELSE "return"
    /\ UNCHANGED <<input, columns, stmt, is_nr_safe_mask, fqdn_redacted, comp_redacted,
                   run, first_out, luhn, orch, sanitize, conv, mon, prv>>

\* is_nr_safe_mask = df[col].str.contains('new relic', case=False, na=False)
ComputeMask ==
    /\ pc = "mask"
    /\ is_nr_safe_mask' = StrContains(NewRelicTerm, df[col])
    /\ pc' = "rules"
    /\ stmt' = 1
    /\ UNCHANGED <<input, columns, df, col, fqdn_redacted, comp_redacted, run, first_out, luhn, orch, sanitize, conv, mon, prv>>

\* df[col] = df[col].str.replace(pattern, repl, regex=True), the next one of the run
ApplyRule ==
    /\ pc = "rules"
    /\ df' = SetCol(StrReplaceAll(Pipeline[stmt], df[col]))
    /\ IF stmt < Len(Pipeline)
       THEN stmt' = stmt + 1 /\ pc' = pc
       ELSE stmt' = 0 /\ pc' = "credit_cards"
    /\ UNCHANGED <<input, columns, col, is_nr_safe_mask, fqdn_redacted, comp_redacted,
                   run, first_out, luhn, orch, sanitize, conv, mon, prv>>

\* CreditCardPass with all() in the place of any(): one cell without a digit keeps
\* the pass from the whole column
CreditCardPassAll ==
    /\ pc = "credit_cards"
    /\ IF \A r \in 1..Len(df[col]) : StrContains(D, df[col])[r]
       THEN df' = SetCol(ApplyCards(df[col]))
       ELSE df' = df
    /\ pc' = "fqdn"
    /\ UNCHANGED <<input, columns, col, stmt, is_nr_safe_mask, fqdn_redacted, comp_redacted,
                   run, first_out, luhn, orch, sanitize, conv, mon, prv>>
\* CreditCardPass with the test made on the first row alone: a column whose first
\* cell has no digit is skipped whatever its other cells hold
CreditCardPassFirstRow ==
    /\ pc = "credit_cards"
    /\ IF Len(df[col]) >= 1 /\ StrContains(D, df[col])[1]
       THEN df' = SetCol(ApplyCards(df[col]))
       ELSE df' = df
    /\ pc' = "fqdn"
    /\ UNCHANGED <<input, columns, col, stmt, is_nr_safe_mask, fqdn_redacted, comp_redacted,
                   run, first_out, luhn, orch, sanitize, conv, mon, prv>>
\* if df[col].str.contains(r'\d').any(): df[col] = df[col].apply(self._redact_credit_cards)
CreditCardPass ==
    /\ pc = "credit_cards"
    /\ IF \E r \in 1..Len(df[col]) : StrContains(D, df[col])[r]
       THEN df' = SetCol(ApplyCards(df[col]))
       ELSE df' = df
    /\ pc' = "fqdn"
    /\ UNCHANGED <<input, columns, col, stmt, is_nr_safe_mask, fqdn_redacted, comp_redacted,
                   run, first_out, luhn, orch, sanitize, conv, mon, prv>>

\* fqdn_redacted = df[col].str.replace(self.patterns.fqdn, '[REDACTED: FQDN]', regex=True)
FqdnRedacted ==
    /\ pc = "fqdn"
    /\ fqdn_redacted' = StrReplaceAll(FqdnStmt, df[col])
    /\ pc' = "fqdn_where"
    /\ UNCHANGED <<input, columns, df, col, stmt, is_nr_safe_mask, comp_redacted, run, first_out, luhn, orch, sanitize, conv, mon, prv>>

\* FqdnWhere with the mask taken from the text as it is now, after the earlier rules
FqdnWhereLateMask ==
    /\ pc = "fqdn_where"
    /\ df' = SetCol(Where(df[col], StrContains(NewRelicTerm, df[col]), fqdn_redacted))
    /\ pc' = "competitors"
    /\ UNCHANGED <<input, columns, col, stmt, is_nr_safe_mask, fqdn_redacted, comp_redacted,
                   run, first_out, luhn, orch, sanitize, conv, mon, prv>>
\* df[col] = df[col].where(is_nr_safe_mask, fqdn_redacted)
FqdnWhere ==
    /\ pc = "fqdn_where"
    /\ df' = SetCol(Where(df[col], is_nr_safe_mask, fqdn_redacted))
    /\ pc' = "competitors"
    /\ UNCHANGED <<input, columns, col, stmt, is_nr_safe_mask, fqdn_redacted, comp_redacted,
                   run, first_out, luhn, orch, sanitize, conv, mon, prv>>

\* comp_redacted = df[col].str.replace(self.patterns.competitors, ...)
\* CompRedacted over the text the hostname rewrite was computed over, the text
\* after the credit-card pass, in the place of the column as it is now
CompRedactedSameBase ==
    /\ pc = "competitors"
    /\ comp_redacted' = AsSeq([r \in 1..Len(df[col]) |->
                            StrReplace(CompetitorStmt,
                                _redact_credit_cards(
                                    AfterRange(StatementOrder, 1, Len(StatementOrder),
                                               Normalized(input.data[col][r]))))])
    /\ pc' = "competitors_where"
    /\ UNCHANGED <<input, columns, df, col, stmt, is_nr_safe_mask, fqdn_redacted, run, first_out, luhn, orch, sanitize, conv, mon, prv>>

CompRedacted ==
    /\ pc = "competitors"
    /\ comp_redacted' = StrReplaceAll(CompetitorStmt, df[col])
    /\ pc' = "competitors_where"
    /\ UNCHANGED <<input, columns, df, col, stmt, is_nr_safe_mask, fqdn_redacted, run, first_out, luhn, orch, sanitize, conv, mon, prv>>

\* CompWhere without the mask: the competitor rewrite is taken for every row
CompWhereUnmasked ==
    /\ pc = "competitors_where"
    /\ df' = SetCol(comp_redacted)
    /\ pc' = "column_logic"
    /\ UNCHANGED <<input, columns, col, stmt, is_nr_safe_mask, fqdn_redacted, comp_redacted,
                   run, first_out, luhn, orch, sanitize, conv, mon, prv>>
\* df[col] = df[col].where(is_nr_safe_mask, comp_redacted)
CompWhere ==
    /\ pc = "competitors_where"
    /\ df' = SetCol(Where(df[col], is_nr_safe_mask, comp_redacted))
    /\ pc' = "column_logic"
    /\ UNCHANGED <<input, columns, col, stmt, is_nr_safe_mask, fqdn_redacted, comp_redacted,
                   run, first_out, luhn, orch, sanitize, conv, mon, prv>>

\* step 5, "if any(x in col_lower ...): pass", and the end of the loop body
ColumnLogic ==
    /\ pc = "column_logic"
    /\ IF col < NCols
       THEN col' = col + 1 /\ pc' = "mask"
       ELSE col' = col /\ pc' = "return"
    /\ UNCHANGED <<input, columns, df, stmt, is_nr_safe_mask, fqdn_redacted, comp_redacted,
                   run, first_out, luhn, orch, sanitize, conv, mon, prv>>

\* Return with a structural rule in front of it that works on whole columns: the
\* column before a column with an AllUsers cell is redacted in every row
ReturnColumnWide ==
    /\ pc = "return"
    /\ pc' = "done"
    /\ df' = AsSeq([c \in 1..Len(df) |->
                IF c < Len(df) /\ \E r \in 1..Len(df[c + 1]) : df[c + 1][r] = "AllUsers"
                THEN AsSeq([r \in 1..Len(df[c]) |-> Token("NAME")])
                ELSE df[c]])
    /\ first_out' = IF run = 1 THEN df' ELSE first_out
    /\ UNCHANGED <<input, columns, col, stmt, is_nr_safe_mask, fqdn_redacted, comp_redacted,
                   run, luhn, orch, sanitize, conv, mon, prv>>
\* return df
Return ==
    /\ pc = "return"
    /\ pc' = "done"
    /\ first_out' = IF run = 1 THEN df ELSE first_out
    /\ UNCHANGED <<input, columns, df, col, stmt, is_nr_safe_mask, fqdn_redacted, comp_redacted,
                   run, luhn, orch, sanitize, conv, mon, prv>>

\* the engine is run again, on the table it returned
Rerun ==
    /\ pc = "done"
    /\ run < MaxRuns
    /\ run' = run + 1
    /\ input' = [columns |-> columns,
                 data |-> AsSeq([c \in 1..Len(df) |->
                            AsSeq([r \in 1..Len(df[c]) |-> Txt(df[c][r])])])]
    /\ df' = input'.data
    /\ columns' = input'.columns
    /\ col' = 0
    /\ pc' = "astype"
    /\ stmt' = 0
    /\ is_nr_safe_mask' = <<>>
    /\ fqdn_redacted' = <<>>
    /\ comp_redacted' = <<>>
    /\ UNCHANGED <<first_out, luhn, orch, sanitize, conv, mon, prv>>

Next ==
    \/ Astype
    \/ ReplaceNan
    \/ ComputeMask
    \/ ApplyRule
    \/ CreditCardPass
    \/ FqdnRedacted
    \/ FqdnWhere
    \/ CompRedacted
    \/ CompWhere
    \/ ColumnLogic
    \/ Return
    \/ Rerun

Spec == Init /\ [][Next]_vars

(***************************************************************************)
(* _is_luhn_valid called on its own, on short strings of digits and        *)
(* other characters                                                        *)
(***************************************************************************)
MaxLuhnLen == 3   \* length of the strings _is_luhn_valid is called on
RECURSIVE StringsUpTo(_)
StringsUpTo(n) ==
    IF n = 0 THEN {""}
    ELSE LET shorter == StringsUpTo(n - 1)
         IN shorter \cup {s \o c : s \in shorter, c \in {"0", "1", "5", "8", "9", "-", " ", "a"}}

InitLuhn ==
    /\ input = [columns |-> <<>>, data |-> <<>>]
    /\ columns = <<>>
    /\ df = <<>>
    /\ col = 0
    /\ pc = "idle"
    /\ stmt = 0
    /\ is_nr_safe_mask = <<>>
    /\ fqdn_redacted = <<>>
    /\ comp_redacted = <<>>
    /\ run = 1
    /\ first_out = <<>>
    /\ cc_num \in StringsUpTo(MaxLuhnLen)
    /\ luhn_pc = "call"
    /\ luhn_result = FALSE
    /\ BatchIdle
    /\ ToolsIdle

\* if not digits: return False
LuhnNoDigits ==
    /\ luhn_pc = "call"
    /\ DigitsOf(cc_num) = <<>>
    /\ luhn_result' = _is_luhn_valid(cc_num)
    /\ luhn_pc' = "returned"
    /\ UNCHANGED <<cc_num, engine, orch, sanitize, conv, mon, prv>>

\* the checksum loop and return checksum % 10 == 0
LuhnSum ==
    /\ luhn_pc = "call"
    /\ DigitsOf(cc_num) # <<>>
    /\ luhn_result' = _is_luhn_valid(cc_num)
    /\ luhn_pc' = "returned"
    /\ UNCHANGED <<cc_num, engine, orch, sanitize, conv, mon, prv>>

NextLuhn ==
    \/ LuhnNoDigits
    \/ LuhnSum

SpecLuhn == InitLuhn /\ [][NextLuhn]_vars

(***************************************************************************)
(* The batch run: process_data.main runs convert.py and then sanitize.py   *)
(* as child processes; sanitize.main walks the input directory and puts    *)
(* every CSV file through the engine                                       *)
(***************************************************************************)
MaxFiles == 2     \* files in the input directory of sanitize.py
\* the lists of up to n files; what goes wrong with a file: nothing, it is no CSV
\* file, or one call fails on it
RECURSIVE FileLists(_)
FileLists(n) ==
    IF n = 0 THEN {<<>>}
    ELSE LET shorter == FileLists(n - 1)
             FileKinds == {"ok", "not_csv", "mkdir", "encoding", "load", "process", "save"}
         IN shorter \cup {Append(fs, k) : fs \in {gs \in shorter : Len(gs) = n - 1}, k \in FileKinds}

Logged(level, file, text) == [level |-> level, file |-> file, text |-> text]

InitBatch ==
    /\ input = [columns |-> <<>>, data |-> <<>>]
    /\ columns = <<>>
    /\ df = <<>>
    /\ col = 0
    /\ pc = "idle"
    /\ stmt = 0
    /\ is_nr_safe_mask = <<>>
    /\ fqdn_redacted = <<>>
    /\ comp_redacted = <<>>
    /\ run = 1
    /\ first_out = <<>>
    /\ cc_num = ""
    /\ luhn_pc = "idle"
    /\ luhn_result = FALSE
    /\ orch_pc = "start"
    /\ orch_out = <<>>
    /\ orch_exit = -1
    /\ san_pc = "idle"
    /\ input_exists = FALSE
    /\ files \in FileLists(MaxFiles)
    /\ file_i = 0
    /\ file_count = 0
    /\ log = <<>>
    /\ saved = {}
    /\ san_exit = -1
    /\ ToolsIdle

\* process_data.main up to the first step: arguments, input directory, child scripts
OrchCheck ==
    /\ orch_pc = "start"
    /\ \E found \in {"ok", "no_argument", "no_directory", "no_scripts"} :
          IF found = "ok"
          THEN /\ orch_out' = Append(orch_out, "Processing Data...")
               /\ orch_pc' = "convert"
               /\ orch_exit' = orch_exit
          ELSE /\ orch_out' = Append(orch_out, "Error: " \o found)
               /\ orch_pc' = "exited"
               /\ orch_exit' = 1
    /\ UNCHANGED <<sanitize, engine, luhn, conv, mon, prv>>

\* RunConvert without the test of run_step's result: the next step is started also
\* when the convert step failed
RunConvertUnchecked ==
    /\ orch_pc = "convert"
    /\ \E outcome \in {"zero", "nonzero", "exception"} :
          /\ orch_out' = Append(orch_out, IF outcome = "zero" THEN "[SUCCESS] Convert TXT to CSV"
                                          ELSE "[ERROR] Convert TXT to CSV")
          /\ orch_pc' = "sanitize"
          /\ orch_exit' = orch_exit
    /\ UNCHANGED <<sanitize, engine, luhn, conv, mon, prv>>
\* run_step(cmd_convert, "Convert TXT to CSV") and the test of its result
RunConvert ==
    /\ orch_pc = "convert"
    /\ \E outcome \in {"zero", "nonzero", "exception"} :
          IF outcome = "zero"
          THEN /\ orch_out' = Append(orch_out, "[SUCCESS] Convert TXT to CSV")
               /\ orch_pc' = "sanitize"
               /\ orch_exit' = orch_exit
          ELSE /\ orch_out' = orch_out \o <<"[ERROR] Convert TXT to CSV",
                                           "Processing aborted due to failure in Step 1.">>
               /\ orch_pc' = "exited"
               /\ orch_exit' = 1
    /\ UNCHANGED <<sanitize, engine, luhn, conv, mon, prv>>

\* run_step(cmd_sanitize, "Sanitize CSV"): subprocess.run starts the child, or raises
StartSanitize ==
    /\ orch_pc = "sanitize"
    /\ \E started \in BOOLEAN :
          IF started
          THEN /\ san_pc' = "check_input"
               /\ orch_pc' = "wait"
               /\ UNCHANGED <<orch_out, orch_exit>>
          ELSE /\ orch_out' = orch_out \o <<"[ERROR] Sanitize CSV",
                                           "Processing aborted due to failure in Step 2.">>
               /\ orch_pc' = "exited"
               /\ orch_exit' = 1
               /\ san_pc' = san_pc
    /\ UNCHANGED <<input_exists, files, file_i, file_count, log, saved, san_exit, engine, luhn, conv, mon, prv>>

\* subprocess.run(check=True) returns or raises CalledProcessError, and the test of
\* run_step's result
SanitizeReturned ==
    /\ orch_pc = "wait"
    /\ san_pc = "exited"
    /\ IF san_exit = 0
       THEN /\ orch_out' = Append(orch_out, "[SUCCESS] Sanitize CSV")
            /\ orch_pc' = "banner"
            /\ orch_exit' = orch_exit
       ELSE /\ orch_out' = orch_out \o <<"[ERROR] Sanitize CSV",
                                        "Processing aborted due to failure in Step 2.">>
            /\ orch_pc' = "exited"
            /\ orch_exit' = 1
    /\ UNCHANGED <<sanitize, engine, luhn, conv, mon, prv>>

\* the closing prints of process_data.main
Banner ==
    /\ orch_pc = "banner"
    /\ orch_out' = Append(orch_out, "ALL STEPS COMPLETED SUCCESSFULLY")
    /\ orch_pc' = "exited"
    /\ orch_exit' = 0
    /\ UNCHANGED <<sanitize, engine, luhn, conv, mon, prv>>

\* sanitize.main: input_path.exists(), else logger.error and sys.exit(1)
CheckInput ==
    /\ san_pc = "check_input"
    /\ \E e \in BOOLEAN :
          /\ input_exists' = e
          /\ IF e
             THEN /\ san_pc' = "make_output"
                  /\ UNCHANGED <<log, san_exit>>
             ELSE /\ log' = Append(log, Logged("error", 0, "Input directory does not exist"))
                  /\ san_exit' = 1
                  /\ san_pc' = "exited"
    /\ UNCHANGED <<files, file_i, file_count, saved, orch, engine, luhn, conv, mon, prv>>

\* the output directory: a warning when it is there, else mkdir, which may raise;
\* then engine = RedactionEngine() and file_count = 0
MakeOutput ==
    /\ san_pc = "make_output"
    /\ \E output_base \in {"exists", "created", "mkdir_raises"} :
          CASE output_base = "exists" ->
                  /\ log' = Append(log, Logged("warning", 0, "Output directory already exists"))
                  /\ san_pc' = "walk"
                  /\ san_exit' = san_exit
            [] output_base = "created" ->
                  /\ san_pc' = "walk"
                  /\ UNCHANGED <<log, san_exit>>
            [] output_base = "mkdir_raises" ->
                  /\ san_pc' = "exited"
                  /\ san_exit' = 1
                  /\ log' = log
    /\ file_count' = 0
    /\ UNCHANGED <<input_exists, files, file_i, saved, orch, engine, luhn, conv, mon, prv>>

\* the head of the loop body for the next file of os.walk: the .csv test, file_count,
\* dest_file.parent.mkdir (outside the try, so its exception ends the process) and
\* logger.info("Processing: ...")
NextFile ==
    /\ san_pc = "walk"
    /\ file_i < Len(files)
    /\ file_i' = file_i + 1
    /\ CASE files[file_i + 1] = "not_csv" ->
               UNCHANGED <<san_pc, file_count, log, san_exit>>
         [] files[file_i + 1] = "mkdir" ->
               /\ file_count' = file_count + 1
               /\ san_pc' = "exited"
               /\ san_exit' = 1
               /\ log' = log
         [] OTHER ->
               /\ file_count' = file_count + 1
               /\ log' = Append(log, Logged("info", file_i + 1, "Processing"))
               /\ san_pc' = "encoding"
               /\ san_exit' = san_exit
    /\ UNCHANGED <<input_exists, files, saved, orch, engine, luhn, conv, mon, prv>>

\* The calls inside the try: each raises on the file that fails at it, and the except
\* clause then logs "Failed to process <file>: <reason>" and the loop goes on.
\* enc = get_encoding(source_file)
GetEncoding ==
    /\ san_pc = "encoding"
    /\ IF files[file_i] = "encoding"
       THEN /\ log' = Append(log, Logged("error", file_i, "Failed to process: encoding"))
            /\ san_pc' = "walk"
       ELSE /\ log' = log
            /\ san_pc' = "load"
    /\ UNCHANGED <<input_exists, files, file_i, file_count, saved, san_exit, orch, engine, luhn, conv, mon, prv>>

\* ReadCsv as if the call were outside the try: its exception ends the process
ReadCsvUncaught ==
    /\ san_pc = "load"
    /\ IF files[file_i] = "load"
       THEN /\ san_exit' = 1
            /\ san_pc' = "exited"
       ELSE /\ san_exit' = san_exit
            /\ san_pc' = "process"
    /\ UNCHANGED <<input_exists, files, file_i, file_count, log, saved, orch, engine, luhn, conv, mon, prv>>
\* df = pd.read_csv(source_file, encoding=enc, dtype=str, on_bad_lines='warn')
ReadCsv ==
    /\ san_pc = "load"
    /\ IF files[file_i] = "load"
       THEN /\ log' = Append(log, Logged("error", file_i, "Failed to process: load"))
            /\ san_pc' = "walk"
       ELSE /\ log' = log
            /\ san_pc' = "process"
    /\ UNCHANGED <<input_exists, files, file_i, file_count, saved, san_exit, orch, engine, luhn, conv, mon, prv>>

\* redacted_df = engine.process_dataframe(df)
ProcessDataframe ==
    /\ san_pc = "process"
    /\ IF files[file_i] = "process"
       THEN /\ log' = Append(log, Logged("error", file_i, "Failed to process: process"))
            /\ san_pc' = "walk"
       ELSE /\ log' = log
            /\ san_pc' = "save"
    /\ UNCHANGED <<input_exists, files, file_i, file_count, saved, san_exit, orch, engine, luhn, conv, mon, prv>>

\* redacted_df.to_csv(dest_file, ...) and logger.info("Success: ...")
ToCsv ==
    /\ san_pc = "save"
    /\ IF files[file_i] = "save"
       THEN /\ log' = Append(log, Logged("error", file_i, "Failed to process: save"))
            /\ saved' = saved
       ELSE /\ log' = Append(log, Logged("info", file_i, "Success: Saved"))
            /\ saved' = saved \cup {file_i}
    /\ san_pc' = "walk"
    /\ UNCHANGED <<input_exists, files, file_i, file_count, san_exit, orch, engine, luhn, conv, mon, prv>>

\* JobComplete with an exit status that tells whether a file failed
JobCompleteStrict ==
    /\ san_pc = "walk"
    /\ file_i = Len(files)
    /\ log' = log \o <<Logged("info", file_count, "Job Complete"),
                       Logged("info", 0, "Redacted data stored")>>
    /\ san_exit' = IF \E k \in 1..Len(log) : log[k].level = "error" THEN 1 ELSE 0
    /\ san_pc' = "exited"
    /\ UNCHANGED <<input_exists, files, file_i, file_count, saved, orch, engine, luhn, conv, mon, prv>>
\* after the walk: the two closing logger.info calls and the end of the process
JobComplete ==
    /\ san_pc = "walk"
    /\ file_i = Len(files)
    /\ log' = log \o <<Logged("info", file_count, "Job Complete"),
                       Logged("info", 0, "Redacted data stored")>>
    /\ san_exit' = 0
    /\ san_pc' = "exited"
    /\ UNCHANGED <<input_exists, files, file_i, file_count, saved, orch, engine, luhn, conv, mon, prv>>

NextBatch ==
    \/ OrchCheck
    \/ RunConvert
    \/ StartSanitize
    \/ SanitizeReturned
    \/ Banner
    \/ CheckInput
    \/ MakeOutput
    \/ NextFile
    \/ GetEncoding
    \/ ReadCsv
    \/ ProcessDataframe
    \/ ToCsv
    \/ JobComplete

SpecBatch == InitBatch /\ [][NextBatch]_vars

(***************************************************************************)
(* Properties                                                              *)
(***************************************************************************)
OrigText(c, r) == Normalized(input.data[c][r])
\* the program points of the loop body at which df holds texts and the mask is set
MaskLive == {"rules", "credit_cards", "fqdn", "fqdn_where", "competitors",
             "competitors_where", "column_logic"}

\* C1: the table the engine works on keeps, at every step, the column names, the
\* number of columns and the number of rows of its input, and a row stays where
\* it was (the rows of a case table, in which no rule matches, come out in place).
C1_ShapePreserved ==
    /\ columns = input.columns
    /\ Len(df) = Len(input.data)
    /\ \A c \in 1..Len(df) : Len(df[c]) = Len(input.data[c])
    /\ (pc \in MaskLive \cup {"return", "done"} /\ Len(columns) = 4)
          => \A c \in 1..Len(df) : \A r \in 1..Len(df[c]) : df[c][r] = OrigText(c, r)
\* a table of one column and MaxRows rows has been returned, one of its cells
\* rewritten and one of its rows kept by the where calls
C1_Witness ==
    /\ pc = "done"
    /\ run = 1
    /\ Len(df[1]) = MaxRows
    /\ \E r \in 1..Len(df[1]) : df[1][r] # OrigText(1, r) /\ Search(NewRelicTerm, OrigText(1, r))

\* C2: idempotence, a second run of the engine on the table the first run
\* returned gives that table back unchanged.
C2_Idempotent == (pc = "done" /\ run = 2) => df = first_out

\* C3: structural join, after a run every row whose column i (three or more
\* columns before it) holds the marker AllUsers and whose column i-3 starts with
\* CM-<digits> has exactly '[REDACTED: NAME]' in column i-1.
C3_StructuralJoin ==
    LET marker == Cat(<<WordB, LitI("AllUsers"), WordB>>)
        id_prefix == Cat(<<LitI("CM-"), Plus(D)>>)
        StartsWith(re, s) == MatchAt(re, AsSeq(Chars(s)), 1).ok
    IN (pc = "done" /\ run = 1) =>
          \A i \in 4..NCols : \A r \in 1..Len(df[i]) :
             (Search(marker, OrigText(i, r)) /\ StartsWith(id_prefix, OrigText(i - 3, r)))
                => df[i - 1][r] = Token("NAME")

\* C4: contextual override, for a cell whose original text contains 'new relic'
\* (in any case) the hostname step and the competitor step leave the text as the
\* credit-card pass left it, while the rules before them rewrite the cell like any
\* other; for a cell without the term both substitutions are applied, the
\* competitor one to the output of the hostname one.
C4_ContextualOverride ==
    /\ [][(
        /\ pc = "rules" =>
              \A r \in 1..Len(df[col]) : df'[col][r] = StrReplace(Pipeline[stmt], df[col][r])
        /\ pc = "credit_cards" =>
              \A r \in 1..Len(df[col]) : df'[col][r] = _redact_credit_cards(df[col][r])
        /\ pc \in {"fqdn", "competitors"} => df' = df
        /\ pc = "fqdn_where" =>
              \A r \in 1..Len(df[col]) :
                 df'[col][r] = IF Search(NewRelicTerm, OrigText(col, r)) THEN df[col][r]
                               ELSE Sub(fqdn, <<L(Token("FQDN"))>>, df[col][r])
        /\ pc = "competitors_where" =>
              \A r \in 1..Len(df[col]) :
                 df'[col][r] = IF Search(NewRelicTerm, OrigText(col, r)) THEN df[col][r]
                               ELSE Sub(competitors, <<L(Token("PRODUCT/COMPETITOR"))>>, df[col][r])
          )]_vars
    /\ [](pc = "column_logic" =>
             \A r \in 1..Len(df[col]) :
                /\ OrigText(col, r) = "Contact us, not Salesforce"
                      => df[col][r] = "Contact us, not [REDACTED: PRODUCT/COMPETITOR]"
                /\ OrigText(col, r) = "new relic vs Salesforce"
                      => df[col][r] = "new relic vs Salesforce"
                /\ OrigText(col, r) = "New Relic bob@example.com Oracle"
                      => df[col][r] = "New Relic [REDACTED: EMAIL] Oracle")
\* both steps are behind a cell that has the term, an email address that was
\* redacted and a competitor name that was not
C4_Witness ==
    /\ pc = "column_logic"
    /\ \E r \in 1..Len(df[col]) :
          /\ Search(NewRelicTerm, OrigText(col, r))
          /\ Search(competitors, df[col][r])
          /\ df[col][r] # OrigText(col, r)

\* C5: the override flag of a cell is computed once, from the original text of
\* the cell: all through the rules, the credit-card pass and the two selections
\* the mask of a row says whether its original text contains 'new relic', so a
\* cell whose only occurrence of the term was replaced by an earlier rule is
\* still kept as it is by the hostname and the competitor selection.
C5_MaskFromOriginal ==
    /\ [](pc \in MaskLive =>
             \A r \in 1..Len(df[col]) : is_nr_safe_mask[r] = Search(NewRelicTerm, OrigText(col, r)))
    /\ [][(
        pc \in {"fqdn_where", "competitors_where"} =>
           \A r \in 1..Len(df[col]) :
              (Search(NewRelicTerm, OrigText(col, r)) /\ ~Search(NewRelicTerm, df[col][r]))
                 => df'[col][r] = df[col][r]
          )]_vars
\* the competitor selection is about to run on a cell that has lost the term to
\* the support-case rule and in which the competitor pattern matches
C5_Witness ==
    /\ pc = "competitors_where"
    /\ \E r \in 1..Len(df[col]) :
          /\ is_nr_safe_mask[r]
          /\ ~Search(NewRelicTerm, df[col][r])
          /\ comp_redacted[r] # df[col][r]

\* the Luhn sum said by position: the digit that has k digits to its right counts
\* as itself for even k and doubled, less 9 from 10 on, for odd k
RECURSIVE WeightedSum(_, _)
WeightedSum(ds, j) ==
    IF j > Len(ds) THEN 0
    ELSE LET k == Len(ds) - j
             twice == 2 * DigitVal(ds[j])
         IN (IF k % 2 = 1 THEN (IF twice >= 10 THEN twice - 9 ELSE twice) ELSE DigitVal(ds[j]))
            + WeightedSum(ds, j + 1)
DigitChars(s) == SelectSeq(AsSeq(Chars(s)), LAMBDA c : c \in Digit)
LuhnByPosition(s) == DigitChars(s) # <<>> /\ WeightedSum(DigitChars(s), 1) % 10 = 0

\* the spans <<first, behind>> that credit_card_candidate.sub hands to replace_match
RECURSIVE CandidateSpans(_, _, _)
CandidateSpans(t, starts, p) ==
    LET cand == {i \in starts : i >= p}
    IN IF cand = {} THEN <<>>
       ELSE LET i == Min(cand)
                e == MatchAt(credit_card_candidate, t, i).pos
            IN <<<<i, e>>>> \o CandidateSpans(t, starts, e)

\* C6: Luhn gate, the credit-card pass replaces a candidate match by
\* '[REDACTED: CREDIT_CARD]' exactly when the match has 13 to 19 digits and
\* passes the Luhn check; every other candidate, and the text between the
\* candidates, is left as it was.
C6_LuhnGate ==
    [][(pc = "credit_cards" =>
           \A r \in 1..Len(df[col]) :
              LET before == df[col][r]
                  after == df'[col][r]
                  t == AsSeq(Chars(before))
                  spans == CandidateSpans(t, MatchStarts(credit_card_candidate, t), 1)
                  n == Len(spans)
                  From(k) == IF k = 1 THEN 1 ELSE spans[k - 1][2]
                  Span(k) == SubSeq(before, spans[k][1], spans[k][2] - 1)
                  Digits(k) == Len(DigitChars(Span(k)))
                  Piece(k) == SubSeq(before, From(k), spans[k][1] - 1)
                              \o (IF 13 <= Digits(k) /\ Digits(k) <= 19 /\ LuhnByPosition(Span(k))
                                  THEN "[REDACTED: CREDIT_CARD]" ELSE Span(k))
              IN after = Join(AsSeq([k \in 1..n |-> Piece(k)])) \o SubSeq(before, From(n + 1), Len(before))
       )]_vars
\* the pass is behind a cell with two candidates, of which it replaced the one
\* that passes the check and kept the other
C6_Witness ==
    /\ pc = "fqdn"
    /\ \E r \in 1..Len(df[col]) :
          /\ OrigText(col, r) = "card 4111111111111111 or 4111111111111112"
          /\ df[col][r] = "card [REDACTED: CREDIT_CARD] or 4111111111111112"

\* C7: _is_luhn_valid(s) looks at the digits of s only, is False when s has no
\* digit, and else is True exactly when the sum over the digits, counted from the
\* right from zero, each digit at an odd position doubled and reduced by 9 when
\* the double is 10 or more, is divisible by 10.
C7_LuhnDefinition ==
    luhn_pc = "returned" =>
       /\ luhn_result = LuhnByPosition(cc_num)
       /\ DigitChars(cc_num) = <<>> => luhn_result = FALSE
       /\ luhn_result = _is_luhn_valid(Join(DigitChars(cc_num)))
\* the call returned True for a string with two digits or more and another character
C7_Witness ==
    /\ luhn_pc = "returned"
    /\ luhn_result
    /\ Len(DigitChars(cc_num)) >= 2
    /\ Len(cc_num) > Len(DigitChars(cc_num))


\* C8 as stated: a cell that is a run of exactly 10 digits comes out of the
\* engine as it went in, whether or not the run passes the Luhn check.
C8_TenDigitsUntouched ==
    (pc = "done" /\ run = 1) =>
       \A c \in 1..NCols : \A r \in 1..Len(df[c]) :
          (Len(OrigText(c, r)) = 10 /\ DigitChars(OrigText(c, r)) = AsSeq(Chars(OrigText(c, r)))) => df[c][r] = OrigText(c, r)
\* C8, amended: a cell that is a run of exactly 10 digits is never redacted as a
\* credit card, whether or not the run passes the Luhn check: the credit-card
\* pass gives such a text back as it is, and no state of the run has the
\* credit-card token in the cell; but the cell does not come out as it went in,
\* the phone rule rewrites it to '[REDACTED: PHONE]'.
C8_TenDigitsPhone ==
    run = 1 =>
       \A c \in 1..NCols : \A r \in 1..Len(input.data[c]) :
          (Len(OrigText(c, r)) = 10 /\ DigitChars(OrigText(c, r)) = AsSeq(Chars(OrigText(c, r)))) =>
             /\ _redact_credit_cards(OrigText(c, r)) = OrigText(c, r)
             /\ pc # "astype" => ~Search(Lit("CREDIT_CARD"), df[c][r])
             /\ pc = "done" => df[c][r] = Token("PHONE")
\* the engine has returned a cell that went in as ten digits passing the Luhn check
C8_Witness ==
    /\ pc = "done"
    /\ run = 1
    /\ \E c \in 1..NCols : \E r \in 1..Len(df[c]) :
          (Len(OrigText(c, r)) = 10 /\ DigitChars(OrigText(c, r)) = AsSeq(Chars(OrigText(c, r)))) /\ LuhnByPosition(OrigText(c, r))

\* the number of places at which the text s has the text w
Occurrences(w, s) ==
    Cardinality({i \in 1..(Len(s) - Len(w) + 1) : SubSeq(s, i, i + Len(w) - 1) = w})
\* C9: within one pass a token '[REDACTED: <TAG>]' that a rule has written into
\* a cell is matched by no later rule: no step of the pass takes a whole token
\* away from a cell, so each token written is still whole in the final text.
C9_TokensKept ==
    [][((run = 1 /\ pc \in MaskLive /\ pc' \in MaskLive) =>
           \A r \in 1..Len(df[col]) :
              \A tag \in {"IPv4", "IPv6", "EMAIL", "MAC", "UUID", "CONTAINER_ID", "AWS_KEY",
                          "GOOGLE_KEY", "STRIPE_KEY", "API_KEY_ASSIGNMENT", "NR_ENV_VAR",
                          "PRIVATE_LOCATION_KEY", "AWS_ARN", "AZURE_ID", "GCP_ID", "PHONE",
                          "SSN", "NAME", "CREDIT_CARD", "FQDN", "PRODUCT/COMPETITOR"} :
                 Occurrences(Token(tag), df'[col][r]) >= Occurrences(Token(tag), df[col][r])
       )]_vars

\* C10: every cell comes out as the rules make it when applied strictly in this
\* sequence, each to the output of the one before: IPv4, IPv6, email, MAC, UUID,
\* container id, AWS key id, Google key, Stripe key, generic secret assignment,
\* environment variable structured quoted, structured unquoted, inline quoted,
\* inline unquoted, private-location key quoted, unquoted, AWS ARN, Azure id,
\* GCP id, phone, SSN, greeting name, support-case-update name, credit-card
\* pass, hostname, competitor (the last two for cells without 'new relic').
C10_RuleSequence ==
    LET sequence == << "ipv4", "ipv6", "email", "mac_address", "uuid", "container_id",
                       "aws_key_id", "google_api_key", "stripe_key", "api_keys_assignment",
                       "nr_env_structured_quoted", "nr_env_structured_unquoted",
                       "nr_env_assignment_quoted", "nr_env_assignment_unquoted",
                       "private_loc_assignment_quoted", "private_loc_assignment_unquoted",
                       "aws_arn", "azure_id", "gcp_id", "phone", "ssn", "greeting_name",
                       "support_update_name" >>
        Cards(text) == _redact_credit_cards(AfterRange(sequence, 1, Len(sequence), text))
        Hosts(text) == StrReplace(FqdnStmt, Cards(text))
        Names(text) == StrReplace(CompetitorStmt, Hosts(text))
    IN /\ (pc = "done" /\ run = 1) =>
             \A c \in 1..NCols : \A r \in 1..Len(df[c]) :
                df[c][r] = IF Search(NewRelicTerm, OrigText(c, r)) THEN Cards(OrigText(c, r))
                           ELSE Names(OrigText(c, r))
       /\ (pc = "rules" /\ run = 1) =>
             \E k \in {stmt - 2, stmt - 1} \cap 0..Len(sequence) :
                \A r \in 1..Len(df[col]) :
                   df[col][r] = AfterRange(sequence, 1, k, OrigText(col, r))
\* the engine has returned a cell in which the IPv4 rule wrote its token before
\* the inline environment-variable rule took the rest of the value
C10_Witness ==
    /\ pc = "done"
    /\ run = 1
    /\ \E c \in 1..NCols : \E r \in 1..Len(df[c]) :
          /\ Search(StmtNamed("ipv4").re, OrigText(c, r))
          /\ Search(Lit("IPv4]"), df[c][r])
          /\ Search(Lit(Token("NR_ENV_VAR")), df[c][r])

\* C11: a cell text with a valid dotted-quad IPv4 address not next to other
\* digits comes out with '[REDACTED: IPv4]' in the place of the address and with
\* no address left, whatever text is around the address.
C11_Ipv4Redacted ==
    (pc = "done" /\ run = 1) =>
       \A c \in 1..NCols : \A r \in 1..Len(df[c]) :
          Search(ipv4, OrigText(c, r)) =>
             /\ Occurrences(Token("IPv4"), df[c][r]) >= 1
             /\ ~Search(ipv4, df[c][r])

\* C12: a cell that is a hostname with the protected term 'newrelic' in it, in
\* any letter case, comes out as it went in, also with the override flag false;
\* a cell that is any other fully-qualified hostname comes out as
\* '[REDACTED: FQDN]'.
C12_ProtectedHosts ==
    LET IsHost(s) == /\ s # ""
                     /\ \A i \in 1..Len(s) : SubSeq(s, i, i) \in Alnum \cup {".", "-"}
                     /\ Search(Lit("."), s)
                     /\ SubSeq(s, 1, 1) \in Alpha
                     /\ SubSeq(s, Len(s), Len(s)) \in Alpha
    IN (pc = "done" /\ run = 1) =>
          \A c \in 1..NCols : \A r \in 1..Len(df[c]) :
             IsHost(OrigText(c, r)) =>
                df[c][r] = IF Search(LitI("newrelic"), OrigText(c, r)) THEN OrigText(c, r)
                           ELSE Token("FQDN")

\* what process_dataframe returns for the table of the one cell text, with the
\* str.replace calls made in the order names
CellBy(names, text) ==
    LET original == <<text>>
        mask == StrContains(NewRelicTerm, original)
        ruled == <<AfterRange(names, 1, Len(names), text)>>
        carded == IF StrContains(D, ruled)[1] THEN ApplyCards(ruled) ELSE ruled
        hosted == Where(carded, mask, StrReplaceAll(FqdnStmt, carded))
        named == Where(hosted, mask, StrReplaceAll(CompetitorStmt, hosted))
    IN named[1]

\* C13: cell independence, the text a cell comes out with is what the engine
\* returns for that cell's text alone, whatever the other cells of its column,
\* its row and the table hold.
C13_CellIndependence ==
    (pc = "done" /\ run = 1) =>
       \A c \in 1..NCols : \A r \in 1..Len(df[c]) : df[c][r] = CellBy(StatementOrder, OrigText(c, r))
\* a column has been returned whose first cell has no digit and was rewritten and
\* whose second cell was redacted by the credit-card pass
C13_Witness ==
    /\ pc = "done"
    /\ run = 1
    /\ Len(df[1]) >= 2
    /\ ~Search(D, OrigText(1, 1))
    /\ df[1][1] # OrigText(1, 1)
    /\ df[1][2] = Token("CREDIT_CARD")

\* C14: sanitize.main attempts every CSV file it discovers: a file on which
\* encoding detection, load, redaction or save fails is logged as an error with
\* its path and the reason, the files without a failure are saved, also those
\* after a failed one, and no such failure ends the run, which stops before the
\* last file only on an exception of a mkdir call.
C14_BatchContinues ==
    LET \* the calls of the try block, named as the file kinds are
        TryCalls == {"encoding", "load", "process", "save"}
        \* the files the loop is through with: all before the current one, and the
        \* current one too once the loop is back at its head or the process has ended
        Finished(i) == i < file_i \/ (i = file_i /\ san_pc \in {"walk", "exited"})
        HasLog(level, i, text) == \E k \in 1..Len(log) : log[k] = Logged(level, i, text)
    IN
    /\ \A i \in 1..Len(files) :
          (Finished(i) /\ files[i] \notin {"not_csv", "mkdir"}) =>
             /\ HasLog("info", i, "Processing")
             /\ files[i] \in TryCalls => /\ HasLog("error", i, "Failed to process: " \o files[i])
                                         /\ i \notin saved
             /\ files[i] = "ok" => i \in saved /\ HasLog("info", i, "Success: Saved")
    /\ (san_pc = "exited" /\ san_exit = 0) =>
          /\ file_i = Len(files)
          /\ file_count = Cardinality({i \in 1..Len(files) : files[i] # "not_csv"})
    /\ (san_pc = "exited" /\ san_exit # 0 /\ input_exists) =>
          (file_i = 0 \/ files[file_i] = "mkdir")
\* the run is over, and a file behind a file that failed in the try block was saved
C14_Witness ==
    /\ san_pc = "exited"
    /\ \E i \in 1..Len(files) : \E j \in 1..Len(files) :
          i < j /\ files[i] \in {"encoding", "load", "process", "save"} /\ j \in saved

\* C15: with the input directory there, sanitize.main ends with exit status 0
\* whatever the number of files that failed in the try block, non-zero only when
\* the directory is missing or a mkdir raised and the walk was not carried out; and
\* on status 0 process_data.main reports the 'Sanitize CSV' step as succeeded and
\* prints the completion banner, also when files failed.
C15_ExitStatus ==
    /\ san_pc = "exited" =>
          /\ san_exit \in {0, 1}
          /\ san_exit = 0 => input_exists /\ file_i = Len(files)
          /\ san_exit = 1 => \/ ~input_exists
                             \/ file_i = 0
                             \/ files[file_i] = "mkdir"
    /\ (san_pc = "exited" /\ orch_pc = "exited") =>
          /\ orch_exit = IF san_exit = 0 THEN 0 ELSE 1
          /\ san_exit = 0 => /\ orch_out[Len(orch_out)] = "ALL STEPS COMPLETED SUCCESSFULLY"
                             /\ orch_out[Len(orch_out) - 1] = "[SUCCESS] Sanitize CSV"
\* process_data.main has ended with the banner after a run in which a file failed
C15_Witness ==
    /\ orch_pc = "exited"
    /\ orch_exit = 0
    /\ orch_out[Len(orch_out)] = "ALL STEPS COMPLETED SUCCESSFULLY"
    /\ \E k \in 1..Len(log) : log[k].level = "error" /\ log[k].file > 0

\* C16: frame of the structural rule, a cell is changed beyond what the per-cell
\* rules made of it only if it is the cell before a marker cell 'AllUsers' whose
\* row has CM-<digits> three columns before the marker: in every other row the
\* cell before the marker column keeps its per-cell value, also when another row
\* of the table meets both conditions, and so does every cell that is no target.
C16_StructuralFrame ==
    LET marker == Cat(<<WordB, LitI("AllUsers"), WordB>>)
        id_prefix == Cat(<<LitI("CM-"), Plus(D)>>)
        Target(c, r) == /\ c >= 3
                        /\ c + 1 <= NCols
                        /\ Search(marker, df[c + 1][r])
                        /\ MatchAt(id_prefix, AsSeq(Chars(df[c - 2][r])), 1).ok
    IN (pc = "done" /\ run = 1) =>
          \A c \in 1..NCols : \A r \in 1..Len(df[c]) :
             ~Target(c, r) => df[c][r] = CellBy(StatementOrder, OrigText(c, r))
\* a table has been returned in which the first row meets both conditions and the
\* second row, with another marker value, has kept its name
C16_Witness ==
    /\ pc = "done"
    /\ run = 1
    /\ NCols = 4
    /\ Len(df[1]) >= 2
    /\ df[4][1] = "AllUsers" /\ df[1][1] = "CM-42"
    /\ df[4][2] = "SomeoneElse" /\ df[3][2] = "Ann Roe"

\* C17: the structural pass runs once all columns are through the per-cell rules
\* and reads the marker and id columns as those rules left them: the table
\* returned is the per-cell result of every cell with, in each row whose redacted
\* marker cell is 'AllUsers' and whose redacted id cell starts with CM-<digits>,
\* '[REDACTED: NAME]' in the cell before the marker.
C17_StructuralAfterCells ==
    LET marker == Cat(<<WordB, LitI("AllUsers"), WordB>>)
        id_prefix == Cat(<<LitI("CM-"), Plus(D)>>)
        Cell(c, r) == CellBy(StatementOrder, OrigText(c, r))
        Target(c, r) == /\ c >= 3
                        /\ c + 1 <= NCols
                        /\ Search(marker, Cell(c + 1, r))
                        /\ MatchAt(id_prefix, AsSeq(Chars(Cell(c - 2, r))), 1).ok
    IN (pc = "done" /\ run = 1) =>
          \A c \in 1..NCols : \A r \in 1..Len(df[c]) :
             df[c][r] = IF Target(c, r) THEN Token("NAME") ELSE Cell(c, r)
\* the text of a cell after the str.replace calls and the credit-card pass
AfterCards(text) ==
    LET ruled == AfterRange(StatementOrder, 1, Len(StatementOrder), text)
    IN IF Len(ruled) >= 0 THEN _redact_credit_cards(ruled) ELSE ruled

\* C18 (as claimed): in step 5 the hostname rewrite and the competitor rewrite
\* are both computed over the cell text after the credit-card pass; the
\* competitor rewrite is not computed over the hostname-redacted text.
C18_SameBase ==
    (pc = "competitors_where" /\ run = 1) =>
       \A r \in 1..Len(df[col]) :
          LET base == AfterCards(OrigText(col, r))
          IN Len(base) >= 0 /\ comp_redacted[r] = StrReplace(CompetitorStmt, base)

\* C18 (amended): the hostname rewrite is computed over the cell text after the
\* credit-card pass; the competitor rewrite is computed over the result of the
\* hostname selection, that is over the hostname-redacted text where the
\* override flag is false and over the text after the credit-card pass where
\* it is true. A competitor name inside a replaced hostname is therefore not
\* replaced by the competitor rule.
C18_CompetitorAfterHosts ==
    /\ (pc = "fqdn_where" /\ run = 1) =>
          \A r \in 1..Len(df[col]) :
             LET base == AfterCards(OrigText(col, r))
             IN Len(base) >= 0 /\ fqdn_redacted[r] = StrReplace(FqdnStmt, base)
    /\ (pc = "competitors_where" /\ run = 1) =>
          \A r \in 1..Len(df[col]) :
             LET base == AfterCards(OrigText(col, r))
                 hosted == IF Search(NewRelicTerm, OrigText(col, r)) THEN base
                           ELSE StrReplace(FqdnStmt, base)
             IN /\ Len(base) >= 0
                /\ Len(hosted) >= 0
                /\ comp_redacted[r] = StrReplace(CompetitorStmt, hosted)
\* the competitor rewrite has been computed for a cell whose hostname, which
\* holds a competitor name, was replaced by the hostname selection
C18_Witness ==
    /\ pc = "competitors_where"
    /\ run = 1
    /\ Search(competitors, AfterCards(OrigText(col, 1)))
    /\ df[col][1] = Token("FQDN")
    /\ comp_redacted[1] = Token("FQDN")

\* C19: a cell whose whole text has the structured form 'name: <key> value:
\* <VALUE>', VALUE quoted or bare, comes out with 'name: <key> value: ' kept and
\* VALUE alone replaced by the token (inside its quotes when quoted): no other
\* rule, before or after the structured ones, changes the outcome.
C19_StructuredValue ==
    LET Whole(re, s) == MatchAt(Cat(<<re, [t |-> "eos"]>>), AsSeq(Chars(s)), 1).ok
        Expected(s) == IF Whole(nr_env_structured_quoted, s)
                       THEN StrReplace(StmtNamed("nr_env_structured_quoted"), s)
                       ELSE StrReplace(StmtNamed("nr_env_structured_unquoted"), s)
    IN (pc = "done" /\ run = 1) =>
          \A c \in 1..NCols : \A r \in 1..Len(df[c]) :
             LET o == OrigText(c, r)
             IN (Whole(nr_env_structured_quoted, o) \/ Whole(nr_env_structured_unquoted, o))
                   => df[c][r] = Expected(o)

\* C20: the structured environment-variable rules are applied to a cell before
\* the generic secret-assignment rule, so every returned cell is what the rule
\* sequence gives with the two structured rules moved in front of the generic
\* one, and the generic rule has consumed nothing of a structured record's value.
C20_StructuredBeforeGeneric ==
    LET structured == <<"nr_env_structured_quoted", "nr_env_structured_unquoted">>
        rest == SelectSeq(StatementOrder,
                          LAMBDA n : n \notin {structured[1], structured[2]})
        k == CHOOSE i \in 1..Len(rest) : rest[i] = "api_keys_assignment"
        claimed == SubSeq(rest, 1, k - 1) \o structured \o SubSeq(rest, k, Len(rest))
    IN (pc = "done" /\ run = 1) =>
          \A c \in 1..NCols : \A r \in 1..Len(df[c]) :
             df[c][r] = CellBy(claimed, OrigText(c, r))

\* C21: skipping the credit-card pass changes nothing: the pass gives a text
\* without a digit back as it is, so the column the code's step leaves (pass
\* skipped when no cell of the column has a digit) is the column with the pass
\* skipped cell by cell and also the column with the pass applied to every cell.
C21_SkipNeutral ==
    [][(pc = "credit_cards" =>
           LET never_skipped == ApplyCards(df[col])
               per_cell == AsSeq([r \in 1..Len(df[col]) |->
                              IF Search(D, df[col][r]) THEN _redact_credit_cards(df[col][r])
                              ELSE df[col][r]])
           IN /\ df'[col] = never_skipped
              /\ df'[col] = per_cell
              /\ \A r \in 1..Len(df[col]) :
                    ~Search(D, df[col][r]) => _redact_credit_cards(df[col][r]) = df[col][r]
       )]_vars
\* the pass is behind a column in which it was applied: the first cell, which has
\* letters and no digit, is as before and the second was redacted
C21_Witness ==
    /\ pc = "fqdn"
    /\ Len(df[col]) >= 2
    /\ ~Search(D, df[col][1])
    /\ Search(Set(Alpha), df[col][1])
    /\ df[col][2] = Token("CREDIT_CARD")

\* C27: the engine changes a cell's text by pattern substitutions only: a cell
\* that is not missing and whose text no pattern of the catalog matches, the
\* text 'nan' included, comes out with its input text, and a missing value
\* comes out as the empty string.
C27_UnmatchedKept ==
    LET Matched(s) == \/ \E k \in 1..Len(Pipeline) : Search(Pipeline[k].re, s)
                      \/ Search(credit_card_candidate, s)
                      \/ Search(fqdn, s)
                      \/ Search(competitors, s)
    IN (pc = "done" /\ run = 1) =>
          \A c \in 1..NCols : \A r \in 1..Len(df[c]) :
             LET cell == input.data[c][r]
             IN /\ cell.na => df[c][r] = ""
                /\ (~cell.na /\ ~Matched(cell.text)) => df[c][r] = cell.text

\* C23: process_data.main starts the 'Sanitize CSV' step only after the 'Convert
\* TXT to CSV' step has reported success; when the convert step fails the
\* sanitize step is never started and the process exits with status 1; the
\* completion banner is printed only after both success reports, convert first.
C23_StepOrder ==
    LET Printed(line) == \E k \in 1..Len(orch_out) : orch_out[k] = line
        At(line) == CHOOSE k \in 1..Len(orch_out) : orch_out[k] = line
        convert_ok == "[SUCCESS] Convert TXT to CSV"
        sanitize_ok == "[SUCCESS] Sanitize CSV"
        banner == "ALL STEPS COMPLETED SUCCESSFULLY"
    IN /\ (san_pc # "idle" \/ orch_pc \in {"sanitize", "wait", "banner"}) => Printed(convert_ok)
       /\ Printed("[ERROR] Convert TXT to CSV") =>
             /\ san_pc = "idle"
             /\ log = <<>>
             /\ orch_pc = "exited"
             /\ orch_exit = 1
             /\ ~Printed(banner)
       /\ Printed(banner) =>
             /\ Printed(convert_ok) /\ Printed(sanitize_ok)
             /\ At(convert_ok) < At(sanitize_ok)
             /\ At(sanitize_ok) < At(banner)
             /\ san_exit = 0
       /\ orch_exit = 0 => Printed(banner)
\* the convert step has failed and process_data.main has exited with status 1,
\* the sanitize step not started
C23_Witness ==
    /\ orch_pc = "exited"
    /\ orch_exit = 1
    /\ \E k \in 1..Len(orch_out) : orch_out[k] = "[ERROR] Convert TXT to CSV"
    /\ san_pc = "idle"

(***************************************************************************)
(* convert.py                                                              *)
(***************************************************************************)
\* str.strip()
Strip(s) ==
    LET inked == {i \in 1..Len(s) : SubSeq(s, i, i) \notin Space}
    IN IF inked = {} THEN ""
       ELSE SubSeq(s, CHOOSE i \in inked : \A j \in inked : i <= j,
                      CHOOSE i \in inked : \A j \in inked : i >= j)

\* clean_html on a text without markup: get_text and strip, then " ".join(text.split())
clean_html(text) ==
    LET stripped == Strip(text)
        cs == Chars(stripped)
        kept == SelectSeq(AsSeq([i \in 1..Len(stripped) |->
                             IF cs[i] \notin Space THEN cs[i]
                             ELSE IF cs[i - 1] \notin Space THEN " " ELSE ""]),
                          LAMBDA c : c # "")
    IN IF text = "" THEN "" ELSE Join(kept)

\* parse_custom_text_file on the lines readlines returns; none is its (None, None)
parse_custom_text_file(raw_lines) ==
    LET lines == AsSeq([i \in 1..Len(raw_lines) |-> Strip(raw_lines[i])])
        blank == {i \in 1..Len(lines) : lines[i] = ""}
        sep_index == CHOOSE i \in blank : \A j \in blank : i <= j
        hdrs == SubSeq(lines, 1, sep_index - 1)
        raw_values == SubSeq(lines, sep_index + 1, Len(lines))
        num_headers == Len(hdrs)
        chunks == (Len(raw_values) + num_headers - 1) \div num_headers
        None == [none |-> TRUE, headers |-> <<>>, value_sets |-> <<>>, printed |-> <<>>]
    IN IF lines = <<>> THEN None
       ELSE IF blank = {} THEN [None EXCEPT !.printed = <<"Skipping: No blank line separator found.">>]
       ELSE IF num_headers = 0 THEN None
       ELSE [none |-> FALSE,
             headers |-> hdrs,
             value_sets |-> AsSeq([k \in 1..chunks |->
                               SubSeq(raw_values, (k - 1) * num_headers + 1,
                                      IF k * num_headers <= Len(raw_values)
                                      THEN k * num_headers ELSE Len(raw_values))]),
             printed |-> IF Len(raw_values) % num_headers # 0
                         THEN <<"Warning: Data might be misaligned.">> ELSE <<>>]

MaxTxtFiles == 2   \* .txt files in the input directory of convert.py
MaxValues == 5     \* value lines of a .txt file

\* process_directory up to the loop: the two directories and the glob
ConvStart ==
    /\ conv_pc = "start"
    /\ \E found \in {"ok", "no_input_dir", "mkdir_raises"} :
          IF found = "no_input_dir"
          THEN /\ conv_log' = Append(conv_log, [file |-> 0, rec |-> 0, text |-> "Error: Input directory not found."])
               /\ conv_pc' = "done"
          ELSE IF found = "mkdir_raises"
          THEN /\ conv_log' = conv_log
               /\ conv_pc' = "raised"
          ELSE IF txt_files = <<>>
          THEN /\ conv_log' = Append(conv_log, [file |-> 0, rec |-> 0, text |-> "No .txt files found."])
               /\ conv_pc' = "done"
          ELSE /\ conv_log' = Append(conv_log, [file |-> 0, rec |-> 0, text |-> "Found files. Starting conversion..."])
               /\ conv_pc' = "file"
    /\ UNCHANGED <<txt_files, txt_i, headers, value_sets, rec_k, records, csv_out, processed_count,
                   engine, luhn, orch, sanitize, mon, prv>>

\* the head of the loop body: parse_custom_text_file and the first continue
ConvParse ==
    /\ conv_pc = "file"
    /\ txt_i < Len(txt_files)
    /\ txt_i' = txt_i + 1
    /\ IF ~txt_files[txt_i'].readable
       THEN /\ conv_pc' = "raised"
            /\ UNCHANGED <<headers, value_sets, rec_k, records, conv_log>>
       ELSE LET parsed == parse_custom_text_file(txt_files[txt_i'].lines)
            IN /\ conv_log' = conv_log \o AsSeq([p \in 1..Len(parsed.printed) |->
                                  [file |-> txt_i', rec |-> 0, text |-> parsed.printed[p]]])
               /\ headers' = parsed.headers
               /\ value_sets' = parsed.value_sets
               /\ records' = <<>>
               /\ rec_k' = 0
               /\ conv_pc' = IF parsed.none \/ parsed.value_sets = <<>> THEN "file" ELSE "record"
    /\ UNCHANGED <<txt_files, csv_out, processed_count, engine, luhn, orch, sanitize, mon, prv>>

\* a record appended whatever the number of its values
ConvRecordUnchecked ==
    /\ conv_pc = "record"
    /\ rec_k < Len(value_sets)
    /\ rec_k' = rec_k + 1
    /\ LET values == value_sets[rec_k']
           zipped == [h \in {headers[i] : i \in 1..Len(values)} |->
                         values[CHOOSE i \in 1..Len(values) :
                                   headers[i] = h /\ \A j \in 1..Len(values) : headers[j] = h => j <= i]]
           record == [h \in DOMAIN zipped |-> IF h = "Body" THEN clean_html(zipped[h]) ELSE zipped[h]]
       IN /\ records' = Append(records, record)
          /\ conv_log' = conv_log
    /\ UNCHANGED <<conv_pc, txt_files, txt_i, headers, value_sets, csv_out, processed_count,
                   engine, luhn, orch, sanitize, mon, prv>>
\* one turn of the loop over value_sets
ConvRecord ==
    /\ conv_pc = "record"
    /\ rec_k < Len(value_sets)
    /\ rec_k' = rec_k + 1
    /\ LET values == value_sets[rec_k']
           last(h) == CHOOSE i \in 1..Len(headers) :
                         headers[i] = h /\ \A j \in 1..Len(headers) : headers[j] = h => j <= i
           body == {i \in 1..Len(headers) :
                       Join(AsSeq([j \in 1..Len(headers[i]) |-> ToLower(Chars(headers[i])[j])])) = "body"}
           body_key == headers[CHOOSE i \in body : \A j \in body : i <= j]
           zipped == [h \in {headers[i] : i \in 1..Len(headers)} |-> values[last(h)]]
           cleaned == clean_html(zipped[body_key])
           record == IF body = {} THEN zipped
                     ELSE [zipped EXCEPT ![body_key] =
                              IF Len(cleaned) > 50000 THEN SubSeq(cleaned, 1, 50000) ELSE cleaned]
       IN IF Len(headers) # Len(values)
          THEN /\ conv_log' = Append(conv_log, [file |-> txt_i, rec |-> rec_k',
                                                text |-> "Warning: Mismatch in headers/values count. Skipping record."])
               /\ records' = records
          ELSE /\ records' = Append(records, record)
               /\ conv_log' = conv_log
    /\ UNCHANGED <<conv_pc, txt_files, txt_i, headers, value_sets, csv_out, processed_count,
                   engine, luhn, orch, sanitize, mon, prv>>

\* after the loop over value_sets: the second continue, the DataFrame and to_csv
ConvWrite ==
    /\ conv_pc = "record"
    /\ rec_k = Len(value_sets)
    /\ conv_pc' = "file"
    /\ IF records = <<>>
       THEN UNCHANGED <<csv_out, processed_count, conv_log>>
       ELSE \E written \in BOOLEAN :
               IF written
               THEN /\ csv_out' = Append(csv_out, [file |-> txt_i, rows |-> records])
                    /\ processed_count' = processed_count + 1
                    /\ conv_log' = conv_log
               ELSE /\ conv_log' = Append(conv_log, [file |-> txt_i, rec |-> 0, text |-> "Error writing"])
                    /\ UNCHANGED <<csv_out, processed_count>>
    /\ UNCHANGED <<txt_files, txt_i, headers, value_sets, rec_k, records,
                   engine, luhn, orch, sanitize, mon, prv>>

\* the end of process_directory
ConvDone ==
    /\ conv_pc = "file"
    /\ txt_i = Len(txt_files)
    /\ conv_log' = Append(conv_log, [file |-> 0, rec |-> processed_count, text |-> "Done! Processed files."])
    /\ conv_pc' = "done"
    /\ UNCHANGED <<txt_files, txt_i, headers, value_sets, rec_k, records, csv_out, processed_count,
                   engine, luhn, orch, sanitize, mon, prv>>

InitConvert ==
    /\ EngineIdle
    /\ BatchIdle
    /\ conv_pc = "start"
    /\ txt_files \in
          LET pool == <<"a\n", "  b \t c \n", "\n", "d\n", "e\n", "f\n">>
              heads == {<<"Id\n">>, <<"Id\n", " Body\n">>, <<"Id\n", "Id\n">>}
              texts == {h \o <<"\n">> \o AsSeq([i \in 1..n |-> pool[((i - 1) % Len(pool)) + 1]]) :
                           h \in heads, n \in 0..MaxValues}
                       \cup {<<>>, <<"Id\n", "a\n">>, <<"\n", "a\n">>}
              samples == {[lines |-> t, readable |-> TRUE] : t \in texts}
                         \cup {[lines |-> <<>>, readable |-> FALSE]}
          IN UNION {[1..n -> samples] : n \in 0..MaxTxtFiles}
    /\ txt_i = 0
    /\ headers = <<>>
    /\ value_sets = <<>>
    /\ rec_k = 0
    /\ records = <<>>
    /\ csv_out = <<>>
    /\ conv_log = <<>>
    /\ processed_count = 0
    /\ mon_pc = "idle"
    /\ all_monitors = <<>>
    /\ choice = ""
    /\ monitors_to_manage = <<>>
    /\ selection_typed = ""
    /\ selected_indices = {}
    /\ confirm = ""
    /\ mon_k = 0
    /\ sent = <<>>
    /\ prs_pc = "idle"
    /\ prs = <<>>
    /\ filtered_prs = <<>>
    /\ pr_i = 0
    /\ prs_per_author = <<>>
    /\ merged_prs_per_month = <<>>
    /\ total_merged_prs = 0

NextConvert ==
    \/ ConvStart
    \/ ConvParse
    \/ ConvRecord
    \/ ConvWrite
    \/ ConvDone

SpecConvert == InitConvert /\ [][NextConvert]_vars

\* C22: a chunk of values whose length differs from the number of headers is skipped with a
\* warning and nothing else: every row of a written CSV file has exactly one value per header
\* and is the chunk it came from, the rows of a file are all its full chunks in order, before
\* and after a skipped one, and only a failed mkdir or an unreadable file stops the loop over
\* the files
C22_MismatchSkipped ==
    LET said(i, k, text) == \E n \in 1..Len(conv_log) : conv_log[n] = [file |-> i, rec |-> k, text |-> text]
    IN /\ \A i \in 1..Len(txt_files) :
             LET parsed == parse_custom_text_file(txt_files[i].lines)
                 hdrs == parsed.headers
                 full == SelectSeq(parsed.value_sets, LAMBDA v : Len(v) = Len(hdrs))
                 over == i < txt_i \/ (i = txt_i /\ conv_pc \in {"file", "done"})
             IN /\ \A j \in 1..Len(csv_out) : csv_out[j].file = i =>
                      LET rows == csv_out[j].rows
                      IN /\ Len(rows) = Len(full)
                         /\ \A r \in 1..Len(rows) :
                               /\ DOMAIN rows[r] = {hdrs[c] : c \in 1..Len(hdrs)}
                               /\ \A c \in 1..Len(hdrs) :
                                     (hdrs[c] # "Body" /\ \A d \in c + 1..Len(hdrs) : hdrs[d] # hdrs[c])
                                        => rows[r][hdrs[c]] = full[r][c]
                /\ (over /\ txt_files[i].readable) =>
                      /\ \A k \in 1..Len(parsed.value_sets) :
                            Len(parsed.value_sets[k]) # Len(hdrs)
                               <=> said(i, k, "Warning: Mismatch in headers/values count. Skipping record.")
                      /\ full # <<>> =>
                            \/ \E j \in 1..Len(csv_out) : csv_out[j].file = i
                            \/ said(i, 0, "Error writing")
       /\ \A j \in 1..Len(csv_out) : csv_out[j].file \in 1..Len(txt_files)
       /\ conv_pc = "raised" => (txt_i = 0 \/ ~txt_files[txt_i].readable)
       /\ (conv_pc = "done" /\ txt_files # <<>> /\ ~said(0, 0, "Error: Input directory not found."))
             => txt_i = Len(txt_files)
C22_Witness ==
    /\ conv_pc = "done"
    /\ Len(csv_out) = 2
    /\ Len(csv_out[1].rows) = 2
    /\ csv_out[1].file = 1
    /\ csv_out[2].file = 2
    /\ \E n \in 1..Len(conv_log) :
          conv_log[n] = [file |-> 1, rec |-> 3, text |-> "Warning: Mismatch in headers/values count. Skipping record."]

(***************************************************************************)
(* manage-monitors.py                                                      *)
(***************************************************************************)
MaxMonitors == 3   \* monitors find_monitors_by_tag returns
MaxSelLen == 4     \* length of what is typed at the selection prompt

\* parse_selection giving up at the first invalid part
parse_selectionAllOrNothing(selection_str, max_index) ==
    LET s == Strip(selection_str)
        is_int(text) == LET t == Strip(text)
                        IN t # "" /\ \A i \in 1..Len(t) : SubSeq(t, i, i) \in Digit
        int(text) == LET t == Strip(text)
                         RECURSIVE value(_)
                         value(k) == IF k = 0 THEN 0 ELSE 10 * value(k - 1) + DigitVal(SubSeq(t, k, k))
                     IN value(Len(t))
        upper_is_all == Len(s) = 3 /\ \A i \in 1..3 : ToLower(SubSeq(s, i, i)) = SubSeq("all", i, i)
        cuts == {0} \cup {i \in 1..Len(s) : SubSeq(s, i, i) = ","} \cup {Len(s) + 1}
        parts == {SubSeq(s, p + 1, (CHOOSE q \in cuts : q > p /\ \A o \in cuts : o > p => q <= o) - 1) :
                     p \in cuts \ {Len(s) + 1}}
        indices(raw_part) ==
            LET part == Strip(raw_part)
                dashes == {i \in 1..Len(part) : SubSeq(part, i, i) = "-"}
                dash == CHOOSE i \in dashes : TRUE
                first == SubSeq(part, 1, dash - 1)
                second == SubSeq(part, dash + 1, Len(part))
            IN IF part = "" THEN {}
               ELSE IF dashes # {}
               THEN IF Cardinality(dashes) # 1 \/ ~is_int(first) \/ ~is_int(second) THEN {}
                    ELSE LET start == int(first)
                             end == int(second)
                         IN IF start > end \/ start < 1 \/ end > max_index THEN {} ELSE start..end
               ELSE IF is_int(part) /\ 1 <= int(part) /\ int(part) <= max_index THEN {int(part)} ELSE {}
    IN IF s = "" \/ upper_is_all THEN 1..max_index
       ELSE IF \E p \in parts : Strip(p) # "" /\ indices(p) = {} THEN {}
       ELSE UNION {indices(p) : p \in parts}
\* parse_selection; int() on texts of digits and white space, the order of the parts left out
parse_selection(selection_str, max_index) ==
    LET s == Strip(selection_str)
        is_int(text) == LET t == Strip(text)
                        IN t # "" /\ \A i \in 1..Len(t) : SubSeq(t, i, i) \in Digit
        int(text) == LET t == Strip(text)
                         RECURSIVE value(_)
                         value(k) == IF k = 0 THEN 0 ELSE 10 * value(k - 1) + DigitVal(SubSeq(t, k, k))
                     IN value(Len(t))
        upper_is_all == Len(s) = 3 /\ \A i \in 1..3 : ToLower(SubSeq(s, i, i)) = SubSeq("all", i, i)
        cuts == {0} \cup {i \in 1..Len(s) : SubSeq(s, i, i) = ","} \cup {Len(s) + 1}
        parts == {SubSeq(s, p + 1, (CHOOSE q \in cuts : q > p /\ \A o \in cuts : o > p => q <= o) - 1) :
                     p \in cuts \ {Len(s) + 1}}
        indices(raw_part) ==
            LET part == Strip(raw_part)
                dashes == {i \in 1..Len(part) : SubSeq(part, i, i) = "-"}
                dash == CHOOSE i \in dashes : TRUE
                first == SubSeq(part, 1, dash - 1)
                second == SubSeq(part, dash + 1, Len(part))
            IN IF part = "" THEN {}
               ELSE IF dashes # {}
               THEN IF Cardinality(dashes) # 1 \/ ~is_int(first) \/ ~is_int(second) THEN {}
                    ELSE LET start == int(first)
                             end == int(second)
                         IN IF start > end \/ start < 1 \/ end > max_index THEN {} ELSE start..end
               ELSE IF is_int(part) /\ 1 <= int(part) /\ int(part) <= max_index THEN {int(part)} ELSE {}
    IN IF s = "" \/ upper_is_all THEN 1..max_index
       ELSE UNION {indices(p) : p \in parts}

\* the selection prompt, parse_selection and the exit on an empty selection
Select ==
    /\ mon_pc = "select"
    /\ selected_indices' = parse_selection(selection_typed, Len(monitors_to_manage))
    /\ mon_pc' = IF selected_indices' = {} THEN "exited" ELSE "confirm"
    /\ UNCHANGED <<all_monitors, choice, monitors_to_manage, selection_typed, confirm, mon_k, sent,
                   engine, luhn, orch, sanitize, conv, prv>>

\* main at the selection prompt of a delete, with every text that can be typed there
InitSelection ==
    /\ EngineIdle
    /\ BatchIdle
    /\ mon_pc = "select"
    /\ choice = "4"
    /\ \E n \in 1..MaxMonitors :
          monitors_to_manage = AsSeq([i \in 1..n |->
              [name |-> "m" \o SubSeq("123456789", i, i), monitorType |-> "SIMPLE", status |-> "ENABLED"]])
    /\ all_monitors = monitors_to_manage
    /\ selection_typed \in
          {Join(AsSeq(t)) : t \in UNION {[1..n -> {"1", "2", "3", "0", "-", ",", " ", "a"}] : n \in 0..MaxSelLen}}
             \cup {"ALL", "all", "All", " ALL ", "ALL,1", "ALLL", "1, 2", " 1 - 2 ", "1-2-3", "2-3,x,1"}
    /\ selected_indices = {}
    /\ confirm = ""
    /\ mon_k = 0
    /\ sent = <<>>
    /\ conv_pc = "idle"
    /\ txt_files = <<>>
    /\ txt_i = 0
    /\ headers = <<>>
    /\ value_sets = <<>>
    /\ rec_k = 0
    /\ records = <<>>
    /\ csv_out = <<>>
    /\ conv_log = <<>>
    /\ processed_count = 0
    /\ prs_pc = "idle"
    /\ prs = <<>>
    /\ filtered_prs = <<>>
    /\ pr_i = 0
    /\ prs_per_author = <<>>
    /\ merged_prs_per_month = <<>>
    /\ total_merged_prs = 0

NextSelection == Select

SpecSelection == InitSelection /\ [][NextSelection]_vars

\* C25 as stated: parse_selection returns a subset of 1..max_index, all of it for the empty
\* string and for 'ALL' in any case, and otherwise the union of the valid comma-separated parts
C25_AsStated ==
    LET max_index == Len(monitors_to_manage)
        s == selection_typed
        is_all == Len(s) = 3 /\ SubSeq(s, 1, 1) \in {"a", "A"} /\ SubSeq(s, 2, 2) \in {"l", "L"}
                     /\ SubSeq(s, 3, 3) \in {"l", "L"}
        numeral(t, v) == LET u == Strip(t)
                         IN \E z \in 0..Len(u) - 1 :
                               /\ \A i \in 1..z : SubSeq(u, i, i) = "0"
                               /\ SubSeq(u, z + 1, Len(u)) = SubSeq("123456789", v, v)
        covers(part, n) ==
            \/ numeral(part, n)
            \/ \E d \in 1..Len(part) : \E a \in 1..max_index : \E b \in a..max_index :
                  /\ SubSeq(part, d, d) = "-"
                  /\ numeral(SubSeq(part, 1, d - 1), a)
                  /\ numeral(SubSeq(part, d + 1, Len(part)), b)
                  /\ a <= n /\ n <= b
        comma_free(i, j) == \A k \in i..j : SubSeq(s, k, k) # ","
        parts == {SubSeq(s, i, j) : <<i, j>> \in
                     {ij \in (1..Len(s) + 1) \X (0..Len(s)) :
                         /\ ij[1] <= ij[2] + 1
                         /\ comma_free(ij[1], ij[2])
                         /\ (ij[1] = 1 \/ SubSeq(s, ij[1] - 1, ij[1] - 1) = ",")
                         /\ (ij[2] = Len(s) \/ SubSeq(s, ij[2] + 1, ij[2] + 1) = ",")}}
    IN mon_pc \in {"confirm", "exited"} =>
          /\ selected_indices \subseteq 1..max_index
          /\ IF s = "" \/ is_all
             THEN selected_indices = 1..max_index
             ELSE selected_indices = {n \in 1..max_index : \E part \in parts : covers(part, n)}

\* C25: the same of the text without the white space around it: a blank text and a padded 'ALL'
\* select everything too
C25_SelectionOfStripped ==
    LET max_index == Len(monitors_to_manage)
        s == Strip(selection_typed)
        is_all == Len(s) = 3 /\ SubSeq(s, 1, 1) \in {"a", "A"} /\ SubSeq(s, 2, 2) \in {"l", "L"}
                     /\ SubSeq(s, 3, 3) \in {"l", "L"}
        numeral(t, v) == LET u == Strip(t)
                         IN \E z \in 0..Len(u) - 1 :
                               /\ \A i \in 1..z : SubSeq(u, i, i) = "0"
                               /\ SubSeq(u, z + 1, Len(u)) = SubSeq("123456789", v, v)
        covers(part, n) ==
            \/ numeral(part, n)
            \/ \E d \in 1..Len(part) : \E a \in 1..max_index : \E b \in a..max_index :
                  /\ SubSeq(part, d, d) = "-"
                  /\ numeral(SubSeq(part, 1, d - 1), a)
                  /\ numeral(SubSeq(part, d + 1, Len(part)), b)
                  /\ a <= n /\ n <= b
        comma_free(i, j) == \A k \in i..j : SubSeq(s, k, k) # ","
        parts == {SubSeq(s, i, j) : <<i, j>> \in
                     {ij \in (1..Len(s) + 1) \X (0..Len(s)) :
                         /\ ij[1] <= ij[2] + 1
                         /\ comma_free(ij[1], ij[2])
                         /\ (ij[1] = 1 \/ SubSeq(s, ij[1] - 1, ij[1] - 1) = ",")
                         /\ (ij[2] = Len(s) \/ SubSeq(s, ij[2] + 1, ij[2] + 1) = ",")}}
    IN mon_pc \in {"confirm", "exited"} =>
          /\ selected_indices \subseteq 1..max_index
          /\ IF s = "" \/ is_all
             THEN selected_indices = 1..max_index
             ELSE selected_indices = {n \in 1..max_index : \E part \in parts : covers(part, n)}
C25_Witness ==
    /\ mon_pc = "confirm"
    /\ selection_typed = "2-3,x,1"
    /\ selected_indices = {1, 2, 3}

\* action_map of main, with action_verb.upper()
action_map ==
    [c \in {"2", "3", "4"} |->
        IF c = "2" THEN [verb |-> "enable", confirm_word |-> "ENABLE", status |-> "ENABLED"]
        ELSE IF c = "3" THEN [verb |-> "disable", confirm_word |-> "DISABLE", status |-> "DISABLED"]
        ELSE [verb |-> "delete", confirm_word |-> "DELETE", status |-> ""]]

\* main from find_monitors_by_tag to the numbered list: the filters and the sort
ListMonitors ==
    /\ mon_pc = "start"
    /\ \E types_to_filter \in {{}, {"ALL"}, {"SIMPLE"}} :
          LET typed == SelectSeq(all_monitors, LAMBDA m :
                          types_to_filter = {} \/ "ALL" \in types_to_filter \/ m.monitorType \in types_to_filter)
              kept == SelectSeq(typed, LAMBDA m :
                          \/ action_map[choice].verb = "delete"
                          \/ action_map[choice].verb = "enable" /\ m.status = "DISABLED"
                          \/ action_map[choice].verb = "disable" /\ m.status = "ENABLED")
              \* the order of the keys (monitorType, name) of the monitors of the model
              rank(m) == <<CHOOSE t \in 1..5 :
                              <<"BROWSER", "CERT_CHECK", "SCRIPT_API", "SCRIPT_BROWSER", "SIMPLE">>[t] = m.monitorType,
                           DigitVal(SubSeq(m.name, 2, 2))>>
              before(a, b) == rank(a)[1] < rank(b)[1] \/ (rank(a)[1] = rank(b)[1] /\ rank(a)[2] < rank(b)[2])
              sorted == AsSeq([p \in 1..Len(kept) |->
                            kept[CHOOSE i \in 1..Len(kept) :
                                    Cardinality({j \in 1..Len(kept) : before(kept[j], kept[i])}) = p - 1]])
          IN /\ monitors_to_manage' = sorted
             /\ mon_pc' = IF sorted = <<>> THEN "exited" ELSE "select"
    /\ UNCHANGED <<all_monitors, choice, selection_typed, selected_indices, confirm, mon_k, sent,
                   engine, luhn, orch, sanitize, conv, prv>>

\* the confirmation prompt and its test
Confirm ==
    /\ mon_pc = "confirm"
    /\ \E typed \in {action_map[choice].confirm_word, action_map[choice].verb, "", "yes"} :
          /\ confirm' = typed
          /\ mon_pc' = IF typed = action_map[choice].confirm_word THEN "mutate" ELSE "cancelled"
    /\ UNCHANGED <<all_monitors, choice, monitors_to_manage, selection_typed, selected_indices, mon_k, sent,
                   engine, luhn, orch, sanitize, conv, prv>>

\* the loop ended by the first mutation that fails
MutateUntilFailure ==
    /\ mon_pc = "mutate"
    /\ mon_k < Cardinality(selected_indices)
    /\ LET index == CHOOSE i \in selected_indices : Cardinality({j \in selected_indices : j < i}) = mon_k
           monitor == monitors_to_manage[index]
           update_mutation_map == [SIMPLE |-> "syntheticsUpdateSimpleMonitor",
                                   BROWSER |-> "syntheticsUpdateSimpleBrowserMonitor",
                                   SCRIPT_API |-> "syntheticsUpdateScriptApiMonitor",
                                   SCRIPT_BROWSER |-> "syntheticsUpdateScriptBrowserMonitor"]
       IN IF action_map[choice].verb # "delete" /\ monitor.monitorType \notin DOMAIN update_mutation_map
          THEN /\ sent' = sent
               /\ mon_k' = mon_k + 1
          ELSE \E success \in BOOLEAN :
                  /\ sent' = Append(sent,
                        [guid |-> monitor.name,
                         mutation |-> IF action_map[choice].verb = "delete" THEN "syntheticsDeleteMonitor"
                                      ELSE update_mutation_map[monitor.monitorType],
                         status |-> action_map[choice].status,
                         success |-> success])
                  /\ mon_k' = IF success THEN mon_k + 1 ELSE Cardinality(selected_indices)
    /\ UNCHANGED <<mon_pc, all_monitors, choice, monitors_to_manage, selection_typed, selected_indices,
                   confirm, engine, luhn, orch, sanitize, conv, prv>>
\* one turn of the loop over selected_monitors: delete_monitor or update_monitor_status
Mutate ==
    /\ mon_pc = "mutate"
    /\ mon_k < Cardinality(selected_indices)
    /\ LET index == CHOOSE i \in selected_indices : Cardinality({j \in selected_indices : j < i}) = mon_k
           monitor == monitors_to_manage[index]
           update_mutation_map == [SIMPLE |-> "syntheticsUpdateSimpleMonitor",
                                   BROWSER |-> "syntheticsUpdateSimpleBrowserMonitor",
                                   SCRIPT_API |-> "syntheticsUpdateScriptApiMonitor",
                                   SCRIPT_BROWSER |-> "syntheticsUpdateScriptBrowserMonitor"]
       IN IF action_map[choice].verb # "delete" /\ monitor.monitorType \notin DOMAIN update_mutation_map
          THEN /\ sent' = sent
               /\ mon_k' = mon_k + 1
          ELSE \E success \in BOOLEAN :
                  /\ sent' = Append(sent,
                        [guid |-> monitor.name,
                         mutation |-> IF action_map[choice].verb = "delete" THEN "syntheticsDeleteMonitor"
                                      ELSE update_mutation_map[monitor.monitorType],
                         status |-> action_map[choice].status,
                         success |-> success])
                  /\ mon_k' = mon_k + 1
    /\ UNCHANGED <<mon_pc, all_monitors, choice, monitors_to_manage, selection_typed, selected_indices,
                   confirm, engine, luhn, orch, sanitize, conv, prv>>

\* after the loop
Complete ==
    /\ mon_pc = "mutate"
    /\ mon_k = Cardinality(selected_indices)
    /\ mon_pc' = "complete"
    /\ UNCHANGED <<all_monitors, choice, monitors_to_manage, selection_typed, selected_indices, confirm,
                   mon_k, sent, engine, luhn, orch, sanitize, conv, prv>>

InitMonitors ==
    /\ EngineIdle
    /\ BatchIdle
    /\ mon_pc = "start"
    /\ choice \in {"2", "3", "4"}
    /\ \E n \in 0..MaxMonitors :
          all_monitors \in
             {AsSeq([i \in 1..n |-> [name |-> "m" \o SubSeq("987654321", 9 - n + i, 9 - n + i),
                                     monitorType |-> f[i][1], status |-> f[i][2]]]) :
                 f \in [1..n -> {"SIMPLE", "CERT_CHECK"} \X {"ENABLED", "DISABLED"}]}
    /\ monitors_to_manage = <<>>
    /\ selection_typed \in {"", "ALL", "2", "3,1", "1-2", "x", "9"}
    /\ selected_indices = {}
    /\ confirm = ""
    /\ mon_k = 0
    /\ sent = <<>>
    /\ conv_pc = "idle"
    /\ txt_files = <<>>
    /\ txt_i = 0
    /\ headers = <<>>
    /\ value_sets = <<>>
    /\ rec_k = 0
    /\ records = <<>>
    /\ csv_out = <<>>
    /\ conv_log = <<>>
    /\ processed_count = 0
    /\ prs_pc = "idle"
    /\ prs = <<>>
    /\ filtered_prs = <<>>
    /\ pr_i = 0
    /\ prs_per_author = <<>>
    /\ merged_prs_per_month = <<>>
    /\ total_merged_prs = 0

NextMonitors ==
    \/ ListMonitors
    \/ Select
    \/ Confirm
    \/ Mutate
    \/ Complete

SpecMonitors == InitMonitors /\ [][NextMonitors]_vars

\* C24 as stated: no mutation without the exact confirmation word; with it, one mutation for
\* each selected monitor the loop has passed, in ascending index, none for another monitor,
\* and the loop passes every selected monitor whether the mutations succeed or fail
C24_AsStated ==
    LET known == {"SIMPLE", "BROWSER", "SCRIPT_API", "SCRIPT_BROWSER"}
        chosen == SelectSeq(AsSeq([i \in 1..Len(monitors_to_manage) |-> i]),
                            LAMBDA i : i \in selected_indices /\ Cardinality({j \in selected_indices : j < i}) < mon_k)
        due == SelectSeq(chosen, LAMBDA i : TRUE)
    IN /\ sent # <<>> => confirm = action_map[choice].confirm_word
       /\ mon_pc \in {"mutate", "complete"} => confirm = action_map[choice].confirm_word
       /\ Len(sent) = Len(due)
       /\ \A k \in 1..Len(sent) :
             /\ k <= Len(due)
             /\ sent[k].guid = monitors_to_manage[due[k]].name
             /\ sent[k].mutation = "syntheticsDeleteMonitor" <=> choice = "4"
       /\ mon_pc = "complete" => mon_k = Cardinality(selected_indices)

\* C24: the same, but enable and disable send nothing for a selected monitor whose type is none
\* of SIMPLE, BROWSER, SCRIPT_API, SCRIPT_BROWSER
C24_OnePerKnownType ==
    LET known == {"SIMPLE", "BROWSER", "SCRIPT_API", "SCRIPT_BROWSER"}
        chosen == SelectSeq(AsSeq([i \in 1..Len(monitors_to_manage) |-> i]),
                            LAMBDA i : i \in selected_indices /\ Cardinality({j \in selected_indices : j < i}) < mon_k)
        due == SelectSeq(chosen, LAMBDA i : choice = "4" \/ monitors_to_manage[i].monitorType \in known)
    IN /\ sent # <<>> => confirm = action_map[choice].confirm_word
       /\ mon_pc \in {"mutate", "complete"} => confirm = action_map[choice].confirm_word
       /\ Len(sent) = Len(due)
       /\ \A k \in 1..Len(sent) :
             /\ k <= Len(due)
             /\ sent[k].guid = monitors_to_manage[due[k]].name
             /\ sent[k].mutation = "syntheticsDeleteMonitor" <=> choice = "4"
       /\ mon_pc = "complete" => mon_k = Cardinality(selected_indices)
C24_Witness ==
    /\ mon_pc = "complete"
    /\ choice = "3"
    /\ selected_indices = {1, 2, 3}
    /\ monitors_to_manage[1].monitorType = "CERT_CHECK"
    /\ Len(sent) = 2
    /\ ~sent[1].success
    /\ sent[2].success

(***************************************************************************)
(* pr_tracker.py                                                           *)
(***************************************************************************)
MaxPrs == 3        \* pull requests in the list analyze_prs is given

\* analyze_prs up to its loop: the filter on the authors, here alice and bob
FilterPrs ==
    /\ prs_pc = "start"
    /\ filtered_prs' = SelectSeq(AsSeq([i \in 1..Len(prs) |-> i]), LAMBDA i : prs[i].login \in {"alice", "bob"})
    /\ prs_pc' = "loop"
    /\ UNCHANGED <<prs, pr_i, prs_per_author, merged_prs_per_month, total_merged_prs,
                   engine, luhn, orch, sanitize, conv, mon>>

\* a turn of the loop that goes on to the categories after a failed detail request
AnalyzePrCountFailed ==
    /\ prs_pc = "loop"
    /\ pr_i < Len(filtered_prs)
    /\ pr_i' = pr_i + 1
    /\ LET pr == prs[filtered_prs[pr_i']]
           author_login == pr.login
           row(table) == IF author_login \in DOMAIN table THEN table[author_login]
                         ELSE [merged |-> 0, unmerged |-> 0, open |-> 0, additions |-> 0, deletions |-> 0]
           put(table, r) == [a \in DOMAIN table \cup {author_login} |-> IF a = author_login THEN r ELSE table[a]]
           fetched == IF pr.response = "ok"
                      THEN put(prs_per_author,
                               [row(prs_per_author) EXCEPT !.additions = @ + pr.additions,
                                                           !.deletions = @ + pr.deletions])
                      ELSE prs_per_author
           merged_date == SubSeq(pr.merged_at, 1, 7)
       IN IF pr.response = "raises"
          THEN /\ prs_pc' = "raised"
               /\ UNCHANGED <<prs_per_author, merged_prs_per_month, total_merged_prs>>
          ELSE IF FALSE
          THEN /\ prs_pc' = prs_pc
               /\ UNCHANGED <<prs_per_author, merged_prs_per_month, total_merged_prs>>
          ELSE IF pr.merged_at # ""
          THEN /\ prs_per_author' = put(fetched, [row(fetched) EXCEPT !.merged = @ + 1])
               /\ merged_prs_per_month' =
                     [d \in DOMAIN merged_prs_per_month \cup {merged_date} |->
                         IF d = merged_date
                         THEN (IF d \in DOMAIN merged_prs_per_month THEN merged_prs_per_month[d] ELSE 0) + 1
                         ELSE merged_prs_per_month[d]]
               /\ total_merged_prs' = total_merged_prs + 1
               /\ prs_pc' = prs_pc
          ELSE /\ prs_per_author' = IF pr.state = "open"
                                    THEN put(fetched, [row(fetched) EXCEPT !.open = @ + 1])
                                    ELSE put(fetched, [row(fetched) EXCEPT !.unmerged = @ + 1])
               /\ prs_pc' = prs_pc
               /\ UNCHANGED <<merged_prs_per_month, total_merged_prs>>
    /\ UNCHANGED <<prs, filtered_prs, engine, luhn, orch, sanitize, conv, mon>>
\* one turn of the loop: the detail request, the line totals, the category
AnalyzePr ==
    /\ prs_pc = "loop"
    /\ pr_i < Len(filtered_prs)
    /\ pr_i' = pr_i + 1
    /\ LET pr == prs[filtered_prs[pr_i']]
           author_login == pr.login
           row(table) == IF author_login \in DOMAIN table THEN table[author_login]
                         ELSE [merged |-> 0, unmerged |-> 0, open |-> 0, additions |-> 0, deletions |-> 0]
           put(table, r) == [a \in DOMAIN table \cup {author_login} |-> IF a = author_login THEN r ELSE table[a]]
           fetched == IF pr.response = "ok"
                      THEN put(prs_per_author,
                               [row(prs_per_author) EXCEPT !.additions = @ + pr.additions,
                                                           !.deletions = @ + pr.deletions])
                      ELSE prs_per_author
           merged_date == SubSeq(pr.merged_at, 1, 7)
       IN IF pr.response = "raises"
          THEN /\ prs_pc' = "raised"
               /\ UNCHANGED <<prs_per_author, merged_prs_per_month, total_merged_prs>>
          ELSE IF pr.response = "status_error"
          THEN /\ prs_pc' = prs_pc
               /\ UNCHANGED <<prs_per_author, merged_prs_per_month, total_merged_prs>>
          ELSE IF pr.merged_at # ""
          THEN /\ prs_per_author' = put(fetched, [row(fetched) EXCEPT !.merged = @ + 1])
               /\ merged_prs_per_month' =
                     [d \in DOMAIN merged_prs_per_month \cup {merged_date} |->
                         IF d = merged_date
                         THEN (IF d \in DOMAIN merged_prs_per_month THEN merged_prs_per_month[d] ELSE 0) + 1
                         ELSE merged_prs_per_month[d]]
               /\ total_merged_prs' = total_merged_prs + 1
               /\ prs_pc' = prs_pc
          ELSE /\ prs_per_author' = IF pr.state = "open"
                                    THEN put(fetched, [row(fetched) EXCEPT !.open = @ + 1])
                                    ELSE put(fetched, [row(fetched) EXCEPT !.unmerged = @ + 1])
               /\ prs_pc' = prs_pc
               /\ UNCHANGED <<merged_prs_per_month, total_merged_prs>>
    /\ UNCHANGED <<prs, filtered_prs, engine, luhn, orch, sanitize, conv, mon>>

\* after the loop: the counters are returned
AnalyzeReturn ==
    /\ prs_pc = "loop"
    /\ pr_i = Len(filtered_prs)
    /\ prs_pc' = "returned"
    /\ UNCHANGED <<prs, filtered_prs, pr_i, prs_per_author, merged_prs_per_month, total_merged_prs,
                   engine, luhn, orch, sanitize, conv, mon>>

InitPrs ==
    /\ EngineIdle
    /\ BatchIdle
    /\ prs_pc = "start"
    /\ prs \in
          LET kinds == {[merged_at |-> "2024-01-15T10:00:00Z", state |-> "closed"],
                        [merged_at |-> "2024-02-01T09:30:00Z", state |-> "closed"],
                        [merged_at |-> "", state |-> "open"],
                        [merged_at |-> "", state |-> "closed"]}
              entries == {[login |-> l, merged_at |-> k.merged_at, state |-> k.state,
                           additions |-> 2, deletions |-> 1, response |-> r] :
                             l \in {"alice", "bob"}, k \in kinds, r \in {"ok", "status_error", "raises"}}
                         \cup {[login |-> "eve", merged_at |-> "2024-01-15T10:00:00Z", state |-> "closed",
                                additions |-> 2, deletions |-> 1, response |-> "ok"]}
          IN UNION {[1..n -> entries] : n \in 0..MaxPrs}
    /\ filtered_prs = <<>>
    /\ pr_i = 0
    /\ prs_per_author = <<>>
    /\ merged_prs_per_month = <<>>
    /\ total_merged_prs = 0
    /\ conv_pc = "idle"
    /\ txt_files = <<>>
    /\ txt_i = 0
    /\ headers = <<>>
    /\ value_sets = <<>>
    /\ rec_k = 0
    /\ records = <<>>
    /\ csv_out = <<>>
    /\ conv_log = <<>>
    /\ processed_count = 0
    /\ mon_pc = "idle"
    /\ all_monitors = <<>>
    /\ choice = ""
    /\ monitors_to_manage = <<>>
    /\ selection_typed = ""
    /\ selected_indices = {}
    /\ confirm = ""
    /\ mon_k = 0
    /\ sent = <<>>

NextPrs ==
    \/ FilterPrs
    \/ AnalyzePr
    \/ AnalyzeReturn

SpecPrs == InitPrs /\ [][NextPrs]_vars

\* C26: at every point of the loop and at the return, each pull request of a target author
\* passed with a successful detail request counts in exactly one of merged, open, unmerged
\* of its author and its lines in the two line totals, one passed with a failed request counts
\* nowhere; so the three counters of an author add up to the author's successfully fetched
\* pull requests, and total_merged_prs is the sum of merged over the authors and the sum of
\* the counts per month
C26_CountedOnce ==
    LET passed == {k \in 1..pr_i : prs_pc # "raised" \/ k < pr_i}
        fetched(a) == {k \in passed : prs[filtered_prs[k]].login = a /\ prs[filtered_prs[k]].response = "ok"}
        is_merged(k) == prs[filtered_prs[k]].merged_at # ""
        is_open(k) == ~is_merged(k) /\ prs[filtered_prs[k]].state = "open"
        counter(a, field) == IF a \in DOMAIN prs_per_author THEN prs_per_author[a][field] ELSE 0
        month(d) == IF d \in DOMAIN merged_prs_per_month THEN merged_prs_per_month[d] ELSE 0
    IN /\ \A a \in {"alice", "bob"} :
             /\ counter(a, "merged") = Cardinality({k \in fetched(a) : is_merged(k)})
             /\ counter(a, "open") = Cardinality({k \in fetched(a) : is_open(k)})
             /\ counter(a, "unmerged") = Cardinality({k \in fetched(a) : ~is_merged(k) /\ ~is_open(k)})
             /\ counter(a, "merged") + counter(a, "open") + counter(a, "unmerged") = Cardinality(fetched(a))
             /\ counter(a, "additions") = 2 * Cardinality(fetched(a))
             /\ counter(a, "deletions") = Cardinality(fetched(a))
       /\ DOMAIN prs_per_author \subseteq {"alice", "bob"}
       /\ DOMAIN merged_prs_per_month \subseteq {"2024-01", "2024-02"}
       /\ total_merged_prs = counter("alice", "merged") + counter("bob", "merged")
       /\ total_merged_prs = month("2024-01") + month("2024-02")
C26_Witness ==
    /\ prs_pc = "returned"
    /\ Len(filtered_prs) = 3
    /\ prs[1].login = "alice" /\ prs[1].response = "ok" /\ prs[1].merged_at # ""
    /\ prs[2].login = "alice" /\ prs[2].response = "status_error" /\ prs[2].merged_at # ""
    /\ prs[3].login = "alice" /\ prs[3].response = "ok" /\ prs[3].state = "open"
    /\ prs_per_author["alice"] = [merged |-> 1, unmerged |-> 0, open |-> 1, additions |-> 4, deletions |-> 2]
    /\ total_merged_prs = 1

====
